---------------------------- MODULE Spec2Model ----------------------------
(***************************************************************************)
(* A model of the generic finite-state-machine engine `StateMachine`       *)
(* (src/src/fsm/TrafficLightStates.ts, lines 76-244).                      *)
(*                                                                         *)
(* A machine is the four private fields of the class: currentState,        *)
(* states, transitions and history.  Every public method is an operator    *)
(* that maps a machine (and the method's arguments) to an outcome: the     *)
(* machine after the call, the error raised ("none" when the call          *)
(* returned), the value returned and the hooks the call invoked, in        *)
(* order.  The variables hold one machine and the last call made on it.    *)
(*                                                                         *)
(* Hooks (onEnter, onExit, onUpdate, action) are callbacks supplied by     *)
(* the caller.  Here they return normally, as the engine's contract        *)
(* requires of them, and their only effect is to be recorded in the call   *)
(* log.  A guard is a closure over state outside the machine: what each    *)
(* guard returns is fixed during a call and arbitrary from call to call,   *)
(* so a call that may evaluate guards takes their outcomes as an input.    *)
(*                                                                         *)
(* Two controllers built on the engine are modelled after it: the          *)
(* TrafficLightController (src/src/TrafficLightController.ts) and the      *)
(* IntersectionController (src/unnamed/part_005), with the light states    *)
(* whose hooks keep timers and trigger TIMER_EXPIRED.  Spec drives one     *)
(* bare machine; LightsSpec drives the two controllers, each on its own.   *)
(***************************************************************************)
EXTENDS Naturals, Sequences, FiniteSets

(***************************************************************************)
(* Bounds of the model and the small sets the calls' arguments are drawn   *)
(* from.                                                                   *)
(***************************************************************************)
MaxTransitions == 2
MaxHistory == 3
MaxMutations == 1
MaxLightHistory == 4
MaxCrossHistory == 4
MaxEmergencies == 2
MaxFineTicks == 100
MaxManualDepth == 2
MaxPending == 2
MaxSeconds == 35
MaxVehicles == 4
MaxDepth == 2
MaxHookHistory == 3
MaxVendingHistory == 5
MaxInserted == 200
MaxFloors == 3
MaxSpaces == 1

StateNames == {"A", "B", "C"}
Events == {"GO", "PANIC"}
Guards == {"g1", "g2"}
DeltaTimes == {0, 16}
HookNames == {"onEnter", "onExit", "onUpdate"}

(* State (lines 77-82): a name and the optional hooks it defines.  The
   objects handed to addState: two different objects named A, one with every
   hook and one with none, and an object named B with every hook.  No object
   is named C, so C stays an unregistered name throughout. *)
StateObject(name, hooks) == [name |-> name, hooks |-> hooks]

State == {StateObject("A", HookNames), StateObject("A", {}), StateObject("B", HookNames)}

(* Transition (lines 88-94); guard and action are "none" when absent. *)
Rule(from, to, event, guard, action) ==
  [from |-> from, to |-> to, event |-> event, guard |-> guard, action |-> action]

(* The rules handed to addTransition.  For GO: a guarded rule of A, an
   unguarded rule of B with an action and a guarded wildcard rule.  For
   PANIC: an unguarded wildcard rule and a guarded self-loop of A with an
   action.  The last two name the unregistered state C. *)
Transition ==
  {Rule("A", "B", "GO", "g1", "none"),
   Rule("B", "A", "GO", "none", "act"),
   Rule("*", "A", "GO", "g2", "none"),
   Rule("*", "B", "PANIC", "none", "none"),
   Rule("A", "A", "PANIC", "g1", "act"),
   Rule("C", "A", "GO", "none", "none"),
   Rule("*", "C", "PANIC", "none", "none")}

(* `State | null` (line 98): the empty tuple is null, <<s>> is the state s. *)
null == <<>>

(* The fields of a freshly constructed StateMachine (lines 98-101). *)
NewMachine ==
  [currentState |-> null,
   states |-> [n \in {} |-> [name |-> n, hooks |-> {}]],
   transitions |-> <<>>,
   history |-> <<>>]

(* One invocation of a hook, as a shared call-order log would record it. *)
Call(hook, of, arg) == [hook |-> hook, of |-> of, arg |-> arg]

(* What a call yields: the machine afterwards, the error raised ("none" when
   the call returned), the value returned, the hooks invoked in order, the
   guards evaluated in order, and the index of the rule trigger selected. *)
Returns(m, ret, calls, evals, rule) ==
  [m |-> m, raised |-> "none", ret |-> ret, calls |-> calls, evals |-> evals,
   rule |-> rule]

Throws(m, error, calls, evals) ==
  [m |-> m, raised |-> error, ret |-> "void", calls |-> calls, evals |-> evals,
   rule |-> 0]

(* Map.prototype.has / get / set on the registry. *)
has(m, name) == name \in DOMAIN m.states

get(m, name) == IF has(m, name) THEN <<m.states[name]>> ELSE null

set(m, name, state) ==
  [n \in DOMAIN m.states \cup {name} |-> IF n = name THEN state ELSE m.states[n]]

(* The hook `hook` of state s, invoked if the state defines it. *)
Invoke(s, hook, arg) ==
  IF hook \in s.hooks THEN <<Call(hook, s.name, arg)>> ELSE <<>>

(* A rule's action, invoked if the rule has one. *)
InvokeAction(action) ==
  IF action # "none" THEN <<Call("action", action, 0)>> ELSE <<>>

(* addState without the duplicate check: a second object of the same name
   replaces the first. *)
addStateOverwrite(m, state) ==
  Returns([m EXCEPT !.states = set(m, state.name, state)], "void", <<>>, <<>>, 0)

(* addState (lines 105-111). *)
addState(m, state) ==
  IF has(m, state.name)
  THEN Throws(m, "StateAlreadyExists", <<>>, <<>>)
  ELSE Returns([m EXCEPT !.states = set(m, state.name, state)], "void", <<>>, <<>>, 0)

(* addTransition that validates the source only. *)
addTransitionNoTargetCheck(m, transition) ==
  IF transition.from # "*" /\ ~has(m, transition.from)
  THEN Throws(m, "SourceStateDoesNotExist", <<>>, <<>>)
  ELSE Returns([m EXCEPT !.transitions = Append(m.transitions, transition)],
               "void", <<>>, <<>>, 0)

(* addTransition (lines 113-124). *)
addTransition(m, transition) ==
  IF transition.from # "*" /\ ~has(m, transition.from)
  THEN Throws(m, "SourceStateDoesNotExist", <<>>, <<>>)
  ELSE IF ~has(m, transition.to)
  THEN Throws(m, "TargetStateDoesNotExist", <<>>, <<>>)
  ELSE Returns([m EXCEPT !.transitions = Append(m.transitions, transition)],
               "void", <<>>, <<>>, 0)

(* start without the already-started check: a second start moves the
   machine. *)
startNoStartedCheck(m, stateName) ==
  LET state == get(m, stateName) IN
  IF state = null
  THEN Throws(m, "StartStateNotFound", <<>>, <<>>)
  ELSE Returns([m EXCEPT !.currentState = state,
                         !.history = Append(m.history, stateName)],
               "void", Invoke(state[1], "onEnter", 0), <<>>, 0)

(* start that assigns currentState before it validates the name: an unknown
   name leaves the machine with no current state. *)
startAssignFirst(m, stateName) ==
  LET state == get(m, stateName) IN
  IF state = null
  THEN Throws([m EXCEPT !.currentState = null], "StartStateNotFound", <<>>, <<>>)
  ELSE IF m.currentState # null
  THEN Throws(m, "AlreadyStarted", <<>>, <<>>)
  ELSE Returns([m EXCEPT !.currentState = state,
                         !.history = Append(m.history, stateName)],
               "void", Invoke(state[1], "onEnter", 0), <<>>, 0)

(* start (lines 126-144). *)
start(m, stateName) ==
  LET state == get(m, stateName) IN
  IF state = null
  THEN Throws(m, "StartStateNotFound", <<>>, <<>>)
  ELSE IF m.currentState # null
  THEN Throws(m, "AlreadyStarted", <<>>, <<>>)
  ELSE Returns([m EXCEPT !.currentState = state,
                         !.history = Append(m.history, stateName)],
               "void", Invoke(state[1], "onEnter", 0), <<>>, 0)

(* A predicate that accepts a rule only for its exact source state, never
   for the wildcard. *)
matchesExactOnly(m, gv, currentStateName, event, i) ==
  LET t == m.transitions[i] IN
  IF t.from # currentStateName THEN [ok |-> FALSE, evals |-> <<>>]
  ELSE IF t.event # event THEN [ok |-> FALSE, evals |-> <<>>]
  ELSE IF t.guard = "none" THEN [ok |-> TRUE, evals |-> <<>>]
  ELSE [ok |-> gv[t.guard], evals |-> <<i>>]

(* A predicate that calls the guard of every rule whose source matches,
   before it looks at the rule's event. *)
matchesGuardBeforeEvent(m, gv, currentStateName, event, i) ==
  LET t == m.transitions[i] IN
  IF ~(t.from = currentStateName \/ t.from = "*") THEN [ok |-> FALSE, evals |-> <<>>]
  ELSE IF t.guard = "none" THEN [ok |-> t.event = event, evals |-> <<>>]
  ELSE [ok |-> gv[t.guard] /\ t.event = event, evals |-> <<i>>]

(* The predicate of the two find calls (lines 155-159, 230-234), applied to
   rule i: [ok, evals], evals being <<i>> when the rule's guard was called.
   && and || short-circuit, so a guard is called only for a rule whose source
   and event match. *)
matches(m, gv, currentStateName, event, i) ==
  LET t == m.transitions[i] IN
  IF ~(t.from = currentStateName \/ t.from = "*") THEN [ok |-> FALSE, evals |-> <<>>]
  ELSE IF t.event # event THEN [ok |-> FALSE, evals |-> <<>>]
  ELSE IF t.guard = "none" THEN [ok |-> TRUE, evals |-> <<>>]
  ELSE [ok |-> gv[t.guard], evals |-> <<i>>]

(* Array.prototype.find over the table from index i on: the index of the
   first rule the predicate accepts (0 for undefined) and the guards called. *)
RECURSIVE findFrom(_, _, _, _, _, _)
findFrom(m, gv, currentStateName, event, i, evals) ==
  IF i > Len(m.transitions) THEN [rule |-> 0, evals |-> evals]
  ELSE LET r == matches(m, gv, currentStateName, event, i) IN
       IF r.ok THEN [rule |-> i, evals |-> evals \o r.evals]
       ELSE findFrom(m, gv, currentStateName, event, i + 1, evals \o r.evals)

(* A find that tries the rules of the current state before the wildcard
   rules, whatever their order in the table. *)
findSpecificFirst(m, gv, currentStateName, event) ==
  LET ok == {i \in 1..Len(m.transitions) :
               matches(m, gv, currentStateName, event, i).ok}
      exact == {i \in ok : m.transitions[i].from = currentStateName}
      first(S) == CHOOSE i \in S : \A j \in S : i <= j
  IN [rule |-> IF exact # {} THEN first(exact)
               ELSE IF ok # {} THEN first(ok) ELSE 0,
      evals |-> <<>>]

(* A find that gives up at the first rule whose source and event match:
   when that rule's guard is false no later rule is tried. *)
findStopsAtRejected(m, gv, currentStateName, event) ==
  LET cand == {i \in 1..Len(m.transitions) :
                 /\ m.transitions[i].from \in {currentStateName, "*"}
                 /\ m.transitions[i].event = event}
      first == CHOOSE i \in cand : \A j \in cand : i <= j
  IN IF cand = {} THEN [rule |-> 0, evals |-> <<>>]
     ELSE LET r == matches(m, gv, currentStateName, event, first) IN
          [rule |-> IF r.ok THEN first ELSE 0, evals |-> r.evals]

find(m, gv, currentStateName, event) ==
  findFrom(m, gv, currentStateName, event, 1, <<>>)

(* transitionTo that runs the action before the departing state's onExit. *)
transitionToActionFirst(m, stateName, action, evals, rule) ==
  LET newState == get(m, stateName) IN
  IF newState = null
  THEN Throws(m, "TargetStateNotFound", <<>>, evals)
  ELSE Returns([m EXCEPT !.currentState = newState,
                         !.history = Append(m.history, stateName)],
               TRUE,
               InvokeAction(action)
                 \o (IF m.currentState # null
                     THEN Invoke(m.currentState[1], "onExit", 0) ELSE <<>>)
                 \o Invoke(newState[1], "onEnter", 0),
               evals, rule)

(* transitionTo that records the state it leaves instead of the one it
   enters. *)
transitionToPushesOld(m, stateName, action, evals, rule) ==
  LET newState == get(m, stateName) IN
  IF newState = null
  THEN Throws(m, "TargetStateNotFound", <<>>, evals)
  ELSE Returns([m EXCEPT !.currentState = newState,
                         !.history = Append(m.history, m.currentState[1].name)],
               TRUE,
               (IF m.currentState # null
                THEN Invoke(m.currentState[1], "onExit", 0) ELSE <<>>)
                 \o InvokeAction(action)
                 \o Invoke(newState[1], "onEnter", 0),
               evals, rule)

(* transitionTo (lines 171-198), called with the guards `evals` and the rule
   `rule` that trigger found. *)
transitionTo(m, stateName, action, evals, rule) ==
  LET newState == get(m, stateName) IN
  IF newState = null
  THEN Throws(m, "TargetStateNotFound", <<>>, evals)
  ELSE Returns([m EXCEPT !.currentState = newState,
                         !.history = Append(m.history, stateName)],
               TRUE,
               (IF m.currentState # null
                THEN Invoke(m.currentState[1], "onExit", 0) ELSE <<>>)
                 \o InvokeAction(action)
                 \o Invoke(newState[1], "onEnter", 0),
               evals, rule)

(* trigger that treats "no matching rule" as an error. *)
triggerThrowsOnNoMatch(m, gv, event) ==
  IF m.currentState = null
  THEN Throws(m, "NotStarted", <<>>, <<>>)
  ELSE LET currentStateName == m.currentState[1].name
           found == find(m, gv, currentStateName, event)
       IN IF found.rule = 0
          THEN Throws(m, "NoValidTransition", <<>>, found.evals)
          ELSE transitionTo(m, m.transitions[found.rule].to,
                            m.transitions[found.rule].action,
                            found.evals, found.rule)

(* trigger that answers false on a machine that was never started. *)
triggerLenient(m, gv, event) ==
  IF m.currentState = null
  THEN Returns(m, FALSE, <<>>, <<>>, 0)
  ELSE LET currentStateName == m.currentState[1].name
           found == find(m, gv, currentStateName, event)
       IN IF found.rule = 0
          THEN Returns(m, FALSE, <<>>, found.evals, 0)
          ELSE transitionTo(m, m.transitions[found.rule].to,
                            m.transitions[found.rule].action,
                            found.evals, found.rule)

(* trigger (lines 146-169); gv gives the outcome of each guard closure. *)
trigger(m, gv, event) ==
  IF m.currentState = null
  THEN Throws(m, "NotStarted", <<>>, <<>>)
  ELSE LET currentStateName == m.currentState[1].name
           found == find(m, gv, currentStateName, event)
       IN IF found.rule = 0
          THEN Returns(m, FALSE, <<>>, found.evals, 0)
          ELSE transitionTo(m, m.transitions[found.rule].to,
                            m.transitions[found.rule].action,
                            found.evals, found.rule)

(* update (lines 200-209). *)
update(m, deltaTime) ==
  IF m.currentState = null
  THEN Throws(m, "NotStarted", <<>>, <<>>)
  ELSE Returns(m, "void", Invoke(m.currentState[1], "onUpdate", deltaTime), <<>>, 0)

(* getCurrentState (lines 211-216). *)
getCurrentState(m) ==
  IF m.currentState = null
  THEN Throws(m, "NotStarted", <<>>, <<>>)
  ELSE Returns(m, m.currentState[1].name, <<>>, <<>>, 0)

(* getHistory that hands out the machine's own array. *)
getHistoryAlias(m) ==
  Returns(m, [alias |-> TRUE, items |-> m.history], <<>>, <<>>, 0)

(* getHistory (lines 218-220): the spread builds a new array, so the array
   returned is not the machine's own (alias is FALSE). *)
getHistory(m) ==
  Returns(m, [alias |-> FALSE, items |-> m.history], <<>>, <<>>, 0)

(* What a hook that calls getCurrentState() and getHistory() on its machine
   gets while the machine is m. *)
View(hook, m) ==
  [hook |-> hook, state |-> getCurrentState(m).ret,
   history |-> getHistory(m).ret.items]

(* A transition that sets the current state and appends to the history
   before it invokes onExit and the action. *)
transitionToViewsEnteredFirst(m, stateName, action) ==
  LET newState == get(m, stateName)
      entered == [m EXCEPT !.currentState = newState,
                           !.history = Append(m.history, stateName)]
  IN IF newState = null THEN <<>>
     ELSE (IF m.currentState # null /\ "onExit" \in m.currentState[1].hooks
           THEN <<View("onExit", entered)>> ELSE <<>>)
          \o (IF action # "none" THEN <<View("action", entered)>> ELSE <<>>)
          \o (IF "onEnter" \in newState[1].hooks
              THEN <<View("onEnter", entered)>> ELSE <<>>)

(* transitionTo (lines 171-198) as its hooks see the machine, one view for
   each hook invoked, in order: onExit (line 182) and the action (line 187)
   run before `this.currentState = newState` (line 191) and the history's
   push (line 192), onEnter (line 196) after them. *)
transitionToViews(m, stateName, action) ==
  LET newState == get(m, stateName)
      entered == [m EXCEPT !.currentState = newState,
                           !.history = Append(m.history, stateName)]
  IN IF newState = null THEN <<>>
     ELSE (IF m.currentState # null /\ "onExit" \in m.currentState[1].hooks
           THEN <<View("onExit", m)>> ELSE <<>>)
          \o (IF action # "none" THEN <<View("action", m)>> ELSE <<>>)
          \o (IF "onEnter" \in newState[1].hooks
              THEN <<View("onEnter", entered)>> ELSE <<>>)

(* trigger (lines 146-169) as the hooks of its transition see the machine;
   no hook runs when the machine is not started or no rule is found. *)
triggerViews(m, gv, event) ==
  IF m.currentState = null THEN <<>>
  ELSE LET found == find(m, gv, m.currentState[1].name, event) IN
       IF found.rule = 0 THEN <<>>
       ELSE transitionToViews(m, m.transitions[found.rule].to,
                              m.transitions[found.rule].action)

(* canTransition that looks at source and event only and never calls a
   guard. *)
canTransitionIgnoresGuards(m, gv, event) ==
  IF m.currentState = null
  THEN Returns(m, FALSE, <<>>, <<>>, 0)
  ELSE Returns(m,
               \E i \in 1..Len(m.transitions) :
                  /\ m.transitions[i].from \in {m.currentState[1].name, "*"}
                  /\ m.transitions[i].event = event,
               <<>>, <<>>, 0)

(* canTransition (lines 222-237). *)
canTransition(m, gv, event) ==
  IF m.currentState = null
  THEN Returns(m, FALSE, <<>>, <<>>, 0)
  ELSE LET found == find(m, gv, m.currentState[1].name, event)
       IN Returns(m, found.rule # 0, <<>>, found.evals, 0)

(***************************************************************************)
(* The state: one machine and what the caller has seen.                    *)
(***************************************************************************)
VARIABLES
  currentState,  \* StateMachine.currentState (line 98)
  states,        \* StateMachine.states (line 99)
  transitions,   \* StateMachine.transitions (line 100)
  history,       \* StateMachine.history (line 101)
  result,        \* the last call: method, argument, machine before, outcome
  mutations,     \* how often the caller changed the array getHistory gave it
  expected,      \* the state start gave, then the state seen after each trigger that returned true
  successes,     \* how many triggers returned true
  seen,          \* what the hooks of the last trigger got from getCurrentState and getHistory
  controller,        \* a TrafficLightController: fsm, the light states' timers, isRunning
  controllerCall,    \* the last call on it: method, argument, controller before, outcome
  run,               \* its run: cadence, updates made while running, manual controls used,
                     \* time ticked since the state was entered (and as the last update left it)
  intersection,      \* an IntersectionController: its fields and the pending timeouts
  intersectionCall,  \* the last call on it or callback run, with the triggers it made
  decision,          \* the last request to the decision endpoint, its answer, and a
                     \* TrafficLightController that has spent the same time in the same state
  vending,           \* a VendingMachine: its fields and its states' timers
  vendingCall,       \* the last call on it: method, argument, machine before, outcome
  hooked,            \* a StateMachine whose hooks raise and call trigger: the machine,
                     \* the calls in progress and the last call of its caller
  elevator,          \* an ElevatorController: its two machines, its fields and its
                     \* states' timers
  garage             \* a ParkingGarage: its machine, its fields, its tickets and its
                     \* states' timers

engineVars ==
  <<currentState, states, transitions, history, result, mutations, expected,
    successes, seen>>

lightsVars == <<controller, controllerCall, run, intersection, intersectionCall>>

endpointVars == <<decision>>

vendingVars == <<vending, vendingCall>>

hookVars == <<hooked>>

buildingVars == <<elevator, garage>>

exampleVars == <<endpointVars, vendingVars, hookVars, buildingVars>>

vars == <<engineVars, lightsVars, exampleVars>>

Machine ==
  [currentState |-> currentState, states |-> states,
   transitions |-> transitions, history |-> history]

(* The guard outcomes recorded for a call that evaluates no guard, and the
   guard outcomes a call on machine m may run under: every outcome of the
   guards its table refers to (what a guard no rule refers to would return
   makes no difference, and is left FALSE). *)
NoGuard == [g \in Guards |-> FALSE]

GuardOutcomes(m) ==
  {gv \in [Guards -> BOOLEAN] :
     \A g \in Guards :
       gv[g] => \E i \in 1..Len(m.transitions) : m.transitions[i].guard = g}

(***************************************************************************)
(* The concrete light states (src/src/fsm/TrafficLightStates.ts, lines      *)
(* 5-75) and the TrafficLightController built on the engine                 *)
(* (src/src/TrafficLightController.ts).  Each light state owns a timer;     *)
(* onEnter zeroes it, onUpdate adds deltaTime to it and, once it has        *)
(* reached the state's duration, triggers TIMER_EXPIRED on the machine.     *)
(* The engine's operators report the hooks they invoke; the hooks' effects  *)
(* on the timers are applied here, in the order of the report.              *)
(***************************************************************************)
RedDuration == 30000
GreenDuration == 25000
YellowDuration == 5000

LightNames == {"RED", "GREEN", "YELLOW"}

duration == [n \in LightNames |->
               IF n = "RED" THEN RedDuration
               ELSE IF n = "GREEN" THEN GreenDuration ELSE YellowDuration]

(* RedLightState, GreenLightState, YellowLightState: BaseState gives each
   onEnter and onExit, and each defines onUpdate. *)
LightStates == [n \in LightNames |-> StateObject(n, HookNames)]

(* `timer = 0` of the three state objects of one machine. *)
NewTimers == [n \in LightNames |-> 0]

(* An onEnter that leaves the timer as the last stay in the state left it. *)
onEnterKeepsTimer(timer, name) == timer

(* onEnter of a light state (lines 13-17, 37-41, 61-65). *)
onEnter(timer, name) == [timer EXCEPT ![name] = 0]

(* The timers after the hooks of `calls` have run, in order: of the hooks
   the engine invokes by itself only onEnter changes a timer (onExit is
   BaseState's, which logs). *)
RECURSIVE hooksRun(_, _)
hooksRun(timer, calls) ==
  IF calls = <<>> THEN timer
  ELSE hooksRun(IF Head(calls).hook = "onEnter"
                THEN onEnter(timer, Head(calls).of)
                ELSE timer,
                Tail(calls))

(* onUpdate that triggers only when the timer has passed the duration. *)
expiredStrictly(timer, name) == timer[name] > duration[name]

(* `this.timer >= this.duration` (lines 22, 46, 70). *)
expired(timer, name) == timer[name] >= duration[name]

(* A table whose EMERGENCY_OVERRIDE rule applies in GREEN only. *)
ControllerTransitionsOverrideInGreen ==
  <<Rule("RED", "GREEN", "TIMER_EXPIRED", "none", "none"),
    Rule("GREEN", "YELLOW", "TIMER_EXPIRED", "none", "none"),
    Rule("YELLOW", "RED", "TIMER_EXPIRED", "none", "none"),
    Rule("GREEN", "RED", "EMERGENCY_OVERRIDE", "none", "none"),
    Rule("*", "GREEN", "FORCE_GREEN", "none", "none"),
    Rule("*", "YELLOW", "FORCE_YELLOW", "none", "none"),
    Rule("*", "RED", "FORCE_RED", "none", "none")>>

(* The rules the controller registers (lines 30-42), in order. *)
ControllerTransitions ==
  <<Rule("RED", "GREEN", "TIMER_EXPIRED", "none", "none"),
    Rule("GREEN", "YELLOW", "TIMER_EXPIRED", "none", "none"),
    Rule("YELLOW", "RED", "TIMER_EXPIRED", "none", "none"),
    Rule("*", "RED", "EMERGENCY_OVERRIDE", "none", "none"),
    Rule("*", "GREEN", "FORCE_GREEN", "none", "none"),
    Rule("*", "YELLOW", "FORCE_YELLOW", "none", "none"),
    Rule("*", "RED", "FORCE_RED", "none", "none")>>

(* The controller after its constructor (lines 12-46): the machine holds the
   three states and the seven rules and is not started. *)
NewTrafficLightController ==
  [fsm |-> [currentState |-> null, states |-> LightStates,
            transitions |-> ControllerTransitions, history |-> <<>>],
   timer |-> NewTimers,
   isRunning |-> FALSE]

(* What a call on the controller yields. *)
Returned(c, ret) == [c |-> c, raised |-> "none", ret |-> ret]

Raised(c, error) == [c |-> c, raised |-> error, ret |-> "void"]

(* `fsm.trigger(event)` on a machine whose states are light states: l
   holds the machine (fsm) and its states' timers; the outcome of the
   engine's trigger is kept beside the machine and timers afterwards.  (The
   machine, the guard outcomes and the trigger's outcome are each bound
   once, v \in {value}.) *)
lightTrigger(l, gv, event) ==
  CHOOSE done \in
    {CHOOSE triggered \in
       {[l |-> [v.l EXCEPT !.fsm = out.m,
                           !.timer = hooksRun(v.l.timer, out.calls)],
         out |-> out] :
          out \in {trigger(v.l.fsm, v.gv, event)}} : TRUE :
       v \in {[l |-> l, gv |-> gv]}} : TRUE

(* onUpdate of the current light state (lines 19-26, 43-50, 67-74); fired
   holds the outcome of the trigger when there was one; what the trigger
   returns is dropped. *)
onUpdate(l, gv, deltaTime) ==
  CHOOSE done \in
    {IF expired(ticked.l.timer, ticked.name)
     THEN CHOOSE triggered \in
            {[l |-> r.l, fired |-> <<r.out>>] :
               r \in {lightTrigger(ticked.l, ticked.gv, "TIMER_EXPIRED")}} : TRUE
     ELSE [l |-> ticked.l, fired |-> <<>>] :
       ticked \in {[l |-> [l EXCEPT !.timer[l.fsm.currentState[1].name] =
                                      @ + deltaTime],
                    gv |-> gv,
                    name |-> l.fsm.currentState[1].name]}} : TRUE

(* `fsm.update(deltaTime)` on such a machine that is started: the engine
   invokes the current state's onUpdate. *)
lightUpdate(l, gv, deltaTime) ==
  IF update(l.fsm, deltaTime).calls = <<>>
  THEN [l |-> l, fired |-> <<>>]
  ELSE onUpdate(l, gv, deltaTime)

(* TrafficLightController.start (lines 48-56). *)
controllerStart(c) ==
  IF c.isRunning THEN Raised(c, "ControllerAlreadyRunning")
  ELSE LET out == start(c.fsm, "RED") IN
       IF out.raised # "none" THEN Raised(c, out.raised)
       ELSE Returned([c EXCEPT !.fsm = out.m,
                               !.timer = hooksRun(c.timer, out.calls),
                               !.isRunning = TRUE],
                     "void")

(* TrafficLightController.stop (lines 58-61). *)
controllerStop(c) == Returned([c EXCEPT !.isRunning = FALSE], "void")

(* TrafficLightController.update (lines 63-69). *)
controllerUpdate(c, deltaTime) ==
  IF ~c.isRunning THEN Returned(c, "void")
  ELSE IF update(c.fsm, deltaTime).raised # "none"
  THEN Raised(c, update(c.fsm, deltaTime).raised)
  ELSE Returned(lightUpdate(c, NoGuard, deltaTime).l, "void")

(* `this.fsm.trigger(event)` from the controller, whose rules have no
   guards. *)
fsmTrigger(c, event) ==
  LET r == lightTrigger(c, NoGuard, event) IN
  IF r.out.raised # "none" THEN Raised(c, r.out.raised)
  ELSE Returned(r.l, r.out.ret)

(* A manual control that goes to the machine whether or not the controller
   is running. *)
manualUnchecked(c, event) == fsmTrigger(c, event)

(* The manual controls (lines 72-92): false when the controller is not
   running, otherwise what the machine's trigger returns. *)
manual(c, event) ==
  IF ~c.isRunning THEN Returned(c, FALSE) ELSE fsmTrigger(c, event)

emergencyOverride(c) == manual(c, "EMERGENCY_OVERRIDE")

forceGreen(c) == manual(c, "FORCE_GREEN")

forceYellow(c) == manual(c, "FORCE_YELLOW")

forceRed(c) == manual(c, "FORCE_RED")

(* TrafficLightController.getCurrentState (lines 95-101). *)
controllerGetCurrentState(c) ==
  LET out == getCurrentState(c.fsm) IN
  IF out.raised # "none" THEN Returned(c, "NOT_STARTED") ELSE Returned(c, out.ret)

(* TrafficLightController.isOperational (lines 111-113). *)
isOperational(c) == Returned(c, c.isRunning)

(***************************************************************************)
(* The IntersectionController (src/unnamed/part_005): two machines of      *)
(* light states, northSouth and eastWest, whose RED -> GREEN rules are     *)
(* guarded by the other machine's current state, and whose YELLOW -> RED   *)
(* actions set a timeout that triggers TIMER_EXPIRED on the other machine. *)
(* An axis is "NS" or "EW"; timeouts holds, oldest first, the axis each    *)
(* pending timeout will trigger.                                           *)
(***************************************************************************)
Axes == {"NS", "EW"}

peer(d) == IF d = "NS" THEN "EW" ELSE "NS"

(* nsTransitions (lines 47-76) and ewTransitions (lines 79-108). *)
nsTransitions ==
  <<Rule("RED", "GREEN", "TIMER_EXPIRED", "canNSGoGreen", "nsRedToGreen"),
    Rule("GREEN", "YELLOW", "TIMER_EXPIRED", "none", "nsGreenToYellow"),
    Rule("YELLOW", "RED", "TIMER_EXPIRED", "none", "nsYellowToRed"),
    Rule("*", "RED", "EMERGENCY_OVERRIDE", "none", "none")>>

ewTransitions ==
  <<Rule("RED", "GREEN", "TIMER_EXPIRED", "canEWGoGreen", "ewRedToGreen"),
    Rule("GREEN", "YELLOW", "TIMER_EXPIRED", "none", "ewGreenToYellow"),
    Rule("YELLOW", "RED", "TIMER_EXPIRED", "none", "ewYellowToRed"),
    Rule("*", "RED", "EMERGENCY_OVERRIDE", "none", "none")>>

(* The rules addEmergencyTransitions adds (lines 247-252, 258-263). *)
ForceGreenRule(d) ==
  Rule("*", "GREEN", "FORCE_GREEN", "none",
       IF d = "NS" THEN "nsEmergencyGreen" ELSE "ewEmergencyGreen")

(* The controller after its constructor (lines 19-25, 27-112). *)
NewIntersectionController ==
  [northSouth |-> [currentState |-> null, states |-> LightStates,
                   transitions |-> nsTransitions, history |-> <<>>],
   eastWest |-> [currentState |-> null, states |-> LightStates,
                 transitions |-> ewTransitions, history |-> <<>>],
   timer |-> [d \in Axes |-> NewTimers],
   pedestrianWaiting |-> [d \in Axes |-> FALSE],
   isRunning |-> FALSE,
   timeouts |-> <<>>]

(* The machine of an axis, and the controller with the machine and the
   timers of an axis replaced. *)
machineOf(x, d) == IF d = "NS" THEN x.northSouth ELSE x.eastWest

withMachine(x, d, fsm, timer) ==
  IF d = "NS"
  THEN [x EXCEPT !.northSouth = fsm, !.timer["NS"] = timer]
  ELSE [x EXCEPT !.eastWest = fsm, !.timer["EW"] = timer]

(* getNorthSouthState / getEastWestState (lines 270-284). *)
stateOf(m) ==
  IF getCurrentState(m).raised # "none" THEN "NOT_STARTED" ELSE getCurrentState(m).ret

getNorthSouthState(x) == stateOf(x.northSouth)

getEastWestState(x) == stateOf(x.eastWest)

(* A guard that lets the axis go green whatever the other axis shows. *)
canGoGreenAlways(x, d) == TRUE

(* A guard that never lets the axis go green. *)
canGoGreenNever(x, d) == FALSE

(* A guard that needs the other machine to be started and in RED. *)
canGoGreenNeedsStartedPeer(x, d) == stateOf(machineOf(x, peer(d))) = "RED"

(* canNSGoGreen / canEWGoGreen (lines 119-137): axis d may go green only if
   the other machine is in RED, or is not started. *)
canGoGreen(x, d) ==
  LET out == getCurrentState(machineOf(x, peer(d))) IN
  IF out.raised # "none" THEN TRUE ELSE out.ret = "RED"

canNSGoGreen(x) == canGoGreen(x, "NS")

canEWGoGreen(x) == canGoGreen(x, "EW")

(* What the guards of the two tables return while the controller is x. *)
guardsOf(x) ==
  [g \in {"canNSGoGreen", "canEWGoGreen"} |->
     IF g = "canNSGoGreen" THEN canNSGoGreen(x) ELSE canEWGoGreen(x)]

(* A setTimeout that forgets the callback. *)
setTimeoutDropped(timeouts, d) == timeouts

(* setTimeout (lines 68-72, 100-104): the callback, which will trigger axis
   d, is queued behind the timeouts already pending; it does not run now. *)
setTimeout(timeouts, d) == Append(timeouts, d)

(* The timeouts after the actions among `calls` have run (lines 65-73,
   97-105): the YELLOW -> RED action of an axis sets a timeout for the other
   axis; the other actions log. *)
RECURSIVE actionsRun(_, _)
actionsRun(timeouts, calls) ==
  IF calls = <<>> THEN timeouts
  ELSE actionsRun(
         IF Head(calls).hook = "action" /\ Head(calls).of = "nsYellowToRed"
         THEN setTimeout(timeouts, "EW")
         ELSE IF Head(calls).hook = "action" /\ Head(calls).of = "ewYellowToRed"
         THEN setTimeout(timeouts, "NS")
         ELSE timeouts,
         Tail(calls))

(* What a call on the intersection yields: the controller afterwards, the
   error raised, the value returned and, in order, the triggers made on the
   two machines: axis, event, who made it, the states of the axis and of
   the other axis when it was made, the trigger's outcome, the state of the
   axis and the growth of its history afterwards, whether the other machine
   is as it was, and the timeouts the trigger's action set. *)
Yields(x, ret, log) == [x |-> x, raised |-> "none", ret |-> ret, log |-> log]

Fails(x, error, log) == [x |-> x, raised |-> error, ret |-> "void", log |-> log]

Triggered(x, d, event, via, out, after) ==
  [axis |-> d, event |-> event, via |-> via,
   from |-> stateOf(machineOf(x, d)), peer |-> stateOf(machineOf(x, peer(d))),
   raised |-> out.raised, ret |-> out.ret, rule |-> out.rule, calls |-> out.calls,
   to |-> stateOf(machineOf(after, d)),
   grown |-> Len(machineOf(after, d).history) - Len(machineOf(x, d).history),
   peerSame |-> machineOf(after, peer(d)) = machineOf(x, peer(d)),
   queued |-> SubSeq(after.timeouts, Len(x.timeouts) + 1, Len(after.timeouts))]

(* The controller after a trigger on axis d whose outcome on the axis's
   machine and timers is r. *)
afterTrigger(x, d, r) ==
  [withMachine(x, d, r.l.fsm, r.l.timer)
     EXCEPT !.timeouts = actionsRun(x.timeouts, r.out.calls)]

(* `this.northSouth.trigger(event)` / `this.eastWest.trigger(event)`, made
   by `via` (emergencyVehicle or a timeout's callback).  Here and below a
   statement's outcome is bound once (v \in {outcome}) and handed on to the
   statements after it. *)
axisTrigger(x, d, event, via) ==
  CHOOSE done \in
    {[x |-> afterTrigger(x, d, r),
      log |-> <<Triggered(x, d, event, via, r.out, afterTrigger(x, d, r))>>] :
       r \in {lightTrigger([fsm |-> machineOf(x, d), timer |-> x.timer[d]],
                           guardsOf(x), event)}} : TRUE

(* `this.northSouth.update(deltaTime)` / `this.eastWest.update(deltaTime)`
   on started machines: the trigger, if any, is the one onUpdate makes. *)
axisUpdate(x, d, deltaTime) ==
  CHOOSE done \in
    {IF r.fired = <<>>
     THEN [x |-> withMachine(x, d, machineOf(x, d), r.l.timer), log |-> <<>>]
     ELSE [x |-> afterTrigger(x, d, [l |-> r.l, out |-> r.fired[1]]),
           log |-> <<Triggered(x, d, "TIMER_EXPIRED", "onUpdate", r.fired[1],
                               afterTrigger(x, d, [l |-> r.l, out |-> r.fired[1]]))>>] :
       r \in {lightUpdate([fsm |-> machineOf(x, d), timer |-> x.timer[d]],
                          guardsOf(x), deltaTime)}} : TRUE

(* handlePedestrianRequests (lines 187-215). *)
handlePedestrianRequests(x) ==
  [x EXCEPT !.pedestrianWaiting =
     [d \in Axes |-> IF x.pedestrianWaiting[d] /\ stateOf(machineOf(x, d)) = "RED"
                     THEN FALSE ELSE x.pedestrianWaiting[d]]]

(* `this.eastWest.start('RED'); this.isRunning = true` (lines 149-151) on
   the controller x1 whose north-south machine has been started. *)
startEastWest(x1) ==
  CHOOSE done \in
    {IF ew.raised # "none" THEN Fails(x1, ew.raised, <<>>)
     ELSE Yields([withMachine(x1, "EW", ew.m, hooksRun(x1.timer["EW"], ew.calls))
                    EXCEPT !.isRunning = TRUE],
                 "void", <<>>) :
       ew \in {start(x1.eastWest, "RED")}} : TRUE

(* IntersectionController.start (lines 139-152). *)
intersectionStart(x) ==
  IF x.isRunning THEN Fails(x, "IntersectionAlreadyRunning", <<>>)
  ELSE CHOOSE done \in
         {IF ns.raised # "none" THEN Fails(x, ns.raised, <<>>)
          ELSE startEastWest(withMachine(x, "NS", ns.m,
                                         hooksRun(x.timer["NS"], ns.calls))) :
            ns \in {start(x.northSouth, "GREEN")}} : TRUE

(* IntersectionController.stop (lines 154-157). *)
intersectionStop(x) == Yields([x EXCEPT !.isRunning = FALSE], "void", <<>>)

(* `this.eastWest.update(deltaTime); this.handlePedestrianRequests()`
   (lines 165-168), ns being the outcome of the north-south update. *)
updateEastWest(ns, deltaTime) ==
  IF update(ns.x.eastWest, deltaTime).raised # "none"
  THEN Fails(ns.x, update(ns.x.eastWest, deltaTime).raised, ns.log)
  ELSE CHOOSE done \in
         {Yields(handlePedestrianRequests(ew.x), "void", ns.log \o ew.log) :
            ew \in {axisUpdate(ns.x, "EW", deltaTime)}} : TRUE

(* IntersectionController.update (lines 159-169). *)
intersectionUpdate(x, deltaTime) ==
  IF ~x.isRunning THEN Yields(x, "void", <<>>)
  ELSE IF update(x.northSouth, deltaTime).raised # "none"
  THEN Fails(x, update(x.northSouth, deltaTime).raised, <<>>)
  ELSE CHOOSE done \in
         {updateEastWest(ns, deltaTime) :
            ns \in {axisUpdate(x, "NS", deltaTime)}} : TRUE

(* pedestrianButtonPressed (lines 172-185). *)
pedestrianButtonPressed(x, direction) ==
  IF ~x.isRunning THEN Yields(x, "void", <<>>)
  ELSE Yields([x EXCEPT !.pedestrianWaiting[direction] = TRUE], "void", <<>>)

(* addEmergencyTransitions (lines 244-267): an addTransition that raises is
   caught and leaves the table as it was. *)
addEmergencyTransitions(x) ==
  [x EXCEPT !.northSouth = addTransition(x.northSouth, ForceGreenRule("NS")).m,
            !.eastWest = addTransition(x.eastWest, ForceGreenRule("EW")).m]

(* The third trigger of emergencyVehicle (lines 230, 236), on the other
   axis, and addEmergencyTransitions (line 241); log holds the triggers made
   before it. *)
overridePeer(x, direction, log) ==
  CHOOSE done \in
    {IF c.log[1].raised # "none" THEN Fails(c.x, c.log[1].raised, log \o c.log)
     ELSE Yields(addEmergencyTransitions(c.x), "void", log \o c.log) :
       c \in {axisTrigger(x, peer(direction), "EMERGENCY_OVERRIDE",
                          "emergencyVehicle")}} : TRUE

(* An emergencyVehicle that forces the axis green and leaves the other axis
   as it is. *)
forceGreenAlone(x, direction, log) ==
  CHOOSE done \in
    {IF b.log[1].raised # "none" THEN Fails(b.x, b.log[1].raised, log \o b.log)
     ELSE Yields(addEmergencyTransitions(b.x), "void", log \o b.log) :
       b \in {axisTrigger(x, direction, "FORCE_GREEN", "emergencyVehicle")}} : TRUE

(* The second trigger of emergencyVehicle (lines 229, 235), FORCE_GREEN on
   the axis, and what follows it. *)
forceGreenThenOverridePeer(x, direction, log) ==
  CHOOSE done \in
    {IF b.log[1].raised # "none" THEN Fails(b.x, b.log[1].raised, log \o b.log)
     ELSE overridePeer(b.x, direction, log \o b.log) :
       b \in {axisTrigger(x, direction, "FORCE_GREEN", "emergencyVehicle")}} : TRUE

(* emergencyVehicle (lines 218-242); a trigger that raises ends the call. *)
emergencyVehicle(x, direction) ==
  IF ~x.isRunning THEN Yields(x, "void", <<>>)
  ELSE CHOOSE done \in
         {IF a.log[1].raised # "none" THEN Fails(a.x, a.log[1].raised, a.log)
          ELSE forceGreenThenOverridePeer(a.x, direction, a.log) :
            a \in {axisTrigger(x, direction, "EMERGENCY_OVERRIDE",
                               "emergencyVehicle")}} : TRUE

(* A callback that triggers without looking at isRunning. *)
timeoutCallbackUnchecked(x) ==
  CHOOSE done \in
    {IF r.log[1].raised # "none" THEN Fails(r.x, r.log[1].raised, r.log)
     ELSE Yields(r.x, "void", r.log) :
       r \in {axisTrigger([x EXCEPT !.timeouts = Tail(x.timeouts)],
                          Head(x.timeouts), "TIMER_EXPIRED", "timeout")}} : TRUE

(* The callback of the oldest pending timeout (lines 68-72, 100-104). *)
timeoutCallback(x) ==
  IF ~x.isRunning THEN Yields([x EXCEPT !.timeouts = Tail(x.timeouts)], "void", <<>>)
  ELSE CHOOSE done \in
         {IF r.log[1].raised # "none" THEN Fails(r.x, r.log[1].raised, r.log)
          ELSE Yields(r.x, "void", r.log) :
            r \in {axisTrigger([x EXCEPT !.timeouts = Tail(x.timeouts)],
                               Head(x.timeouts), "TIMER_EXPIRED", "timeout")}} : TRUE

(* The two machines operated one at a time, as the guards provide for
   (machines started in a staggered sequence): `start(name)` of the machine
   of axis d, and `trigger(event)` on it with the guards of the tables. *)
machineStart(x, d, name) ==
  CHOOSE done \in
    {IF s.raised # "none" THEN Fails(x, s.raised, <<>>)
     ELSE Yields(withMachine(x, d, s.m, hooksRun(x.timer[d], s.calls)),
                 "void", <<>>) :
       s \in {start(machineOf(x, d), name)}} : TRUE

machineTrigger(x, d, event) ==
  CHOOSE done \in
    {IF r.log[1].raised # "none" THEN Fails(r.x, r.log[1].raised, r.log)
     ELSE Yields(r.x, r.log[1].ret, r.log) :
       r \in {axisTrigger(x, d, event, "caller")}} : TRUE

(* getStatus (lines 286-306). *)
getStatus(x) ==
  LET nsState == getNorthSouthState(x)
      ewState == getEastWestState(x)
      isSafe == ~(nsState = "GREEN" /\ ewState = "GREEN")
  IN Yields(x,
            [ns |-> nsState, ew |-> ewState, running |-> x.isRunning,
             pedestrianWaiting |-> x.pedestrianWaiting, isSafe |-> isSafe],
            <<>>)

(***************************************************************************)
(* The VendingMachine (src/src/examples/VendingMachine.ts): a StateMachine *)
(* with the states IDLE, SELECTING, PAYMENT and DISPENSING beside an       *)
(* inventory, the amount inserted and the item selected.  The engine's     *)
(* operators report the hooks and actions they invoke; their effects on    *)
(* the machine's fields are applied here, in the order of the report.      *)
(* Amounts are in cents: the prices and the coins inserted are multiples   *)
(* of 0.25, which JavaScript numbers add and compare exactly.              *)
(***************************************************************************)
PaymentTimeout == 30000
DispenseDuration == 3000

VendingStateNames == {"IDLE", "SELECTING", "PAYMENT", "DISPENSING"}

(* IdleState, SelectingState, PaymentState, DispensingState: BaseState gives
   each onEnter and onExit, and each defines onUpdate. *)
VendingStates == [n \in VendingStateNames |-> StateObject(n, HookNames)]

(* setupInventory (lines 106-116): price and quantity of each item id. *)
price == [A1 |-> 150, A2 |-> 100, B1 |-> 200, B2 |-> 125, C1 |-> 175]

setupInventory == [A1 |-> 10, A2 |-> 15, B1 |-> 8, B2 |-> 12, C1 |-> 6]

(* A table whose CANCEL rule applies in PAYMENT only. *)
VendingTransitionsCancelInPayment ==
  <<Rule("IDLE", "SELECTING", "INSERT_COIN", "none", "coinInserted"),
    Rule("SELECTING", "PAYMENT", "SELECT_ITEM", "hasSelection", "itemSelected"),
    Rule("PAYMENT", "DISPENSING", "PAYMENT_COMPLETE", "hasEnoughMoney", "dispense"),
    Rule("DISPENSING", "IDLE", "DISPENSE_COMPLETE", "none", "none"),
    Rule("PAYMENT", "IDLE", "CANCEL", "none", "refund")>>

(* The rules setupStateMachine registers (lines 126-166), in order. *)
VendingTransitions ==
  <<Rule("IDLE", "SELECTING", "INSERT_COIN", "none", "coinInserted"),
    Rule("SELECTING", "PAYMENT", "SELECT_ITEM", "hasSelection", "itemSelected"),
    Rule("PAYMENT", "DISPENSING", "PAYMENT_COMPLETE", "hasEnoughMoney", "dispense"),
    Rule("DISPENSING", "IDLE", "DISPENSE_COMPLETE", "none", "none"),
    Rule("*", "IDLE", "CANCEL", "none", "refund")>>

(* resetSelection (lines 213-216); "none" is the null selectedItem. *)
resetSelection(v) == [v EXCEPT !.selectedItem = "none", !.insertedAmount = 0]

(* hasEnoughMoney (lines 222-225); selectedItem is the inventory's own item
   object, held here by its id. *)
hasEnoughMoney(v) ==
  IF v.selectedItem = "none" THEN FALSE
  ELSE v.insertedAmount >= price[v.selectedItem]

(* refundMoney (lines 236-241). *)
refundMoney(v) ==
  IF v.insertedAmount > 0 THEN [v EXCEPT !.insertedAmount = 0] ELSE v

(* decrementInventory (lines 243-251). *)
decrementInventory(v) ==
  IF v.selectedItem = "none" THEN v
  ELSE [v EXCEPT !.inventory[v.selectedItem] = @ - 1]

(* The outcomes of the two guard closures (lines 137, 145) on machine v. *)
vendingGuards(v) ==
  [hasSelection |-> v.selectedItem # "none",
   hasEnoughMoney |-> hasEnoughMoney(v)]

(* One hook or action as the vending machine's states and rules define it:
   IdleState.onEnter resets the selection, PaymentState.onEnter and
   DispensingState.onEnter zero their timers, the PAYMENT_COMPLETE action
   decrements the inventory (dispenseChange logs), the CANCEL action refunds;
   the others log. *)
vendingHook(v, call) ==
  IF call.hook = "onEnter" /\ call.of = "IDLE" THEN resetSelection(v)
  ELSE IF call.hook = "onEnter" /\ call.of = "PAYMENT"
  THEN [v EXCEPT !.paymentTimer = 0]
  ELSE IF call.hook = "onEnter" /\ call.of = "DISPENSING"
  THEN [v EXCEPT !.dispenseTimer = 0]
  ELSE IF call.hook = "action" /\ call.of = "dispense" THEN decrementInventory(v)
  ELSE IF call.hook = "action" /\ call.of = "refund" THEN refundMoney(v)
  ELSE v

RECURSIVE vendingHooksRun(_, _)
vendingHooksRun(v, calls) ==
  IF calls = <<>> THEN v
  ELSE vendingHooksRun(vendingHook(v, Head(calls)), Tail(calls))

(* `this.fsm.trigger(event)` on the vending machine's StateMachine: the
   guards read the machine's fields as they are when trigger is called. *)
vendingTrigger(v, event) ==
  CHOOSE done \in
    {[v |-> vendingHooksRun([v EXCEPT !.fsm = out.m], out.calls),
      raised |-> out.raised, ret |-> out.ret] :
       out \in {trigger(v.fsm, vendingGuards(v), event)}} : TRUE

(* The constructor (lines 100-104, 118-170): the four states, the five
   rules, and `fsm.start('IDLE')`. *)
NewVendingMachine ==
  CHOOSE done \in
    {vendingHooksRun([built EXCEPT !.fsm = out.m], out.calls) :
       built \in {[fsm |-> [currentState |-> null, states |-> VendingStates,
                            transitions |-> VendingTransitions,
                            history |-> <<>>],
                   inventory |-> setupInventory,
                   insertedAmount |-> 0,
                   selectedItem |-> "none",
                   paymentTimer |-> 0,
                   dispenseTimer |-> 0]},
       out \in {start([currentState |-> null, states |-> VendingStates,
                       transitions |-> VendingTransitions,
                       history |-> <<>>], "IDLE")}} : TRUE

(* insertCoin (lines 173-185). *)
insertCoin(v, amount) ==
  LET paid == [v EXCEPT !.insertedAmount = @ + amount]
      current == getCurrentState(paid.fsm).ret
  IN IF current = "IDLE"
     THEN [vendingTrigger(paid, "INSERT_COIN") EXCEPT !.ret = "void"]
     ELSE IF current = "PAYMENT" /\ hasEnoughMoney(paid)
     THEN [vendingTrigger(paid, "PAYMENT_COMPLETE") EXCEPT !.ret = "void"]
     ELSE [v |-> paid, raised |-> "none", ret |-> "void"]

(* selectItem (lines 187-202). *)
selectItem(v, itemId) ==
  IF itemId \notin DOMAIN v.inventory
  THEN [v |-> v, raised |-> "none", ret |-> FALSE]
  ELSE IF v.inventory[itemId] <= 0
  THEN [v |-> v, raised |-> "none", ret |-> FALSE]
  ELSE vendingTrigger([v EXCEPT !.selectedItem = itemId], "SELECT_ITEM")

(* cancel (lines 204-206). *)
cancel(v) == [vendingTrigger(v, "CANCEL") EXCEPT !.ret = "void"]

(* update (lines 253-255): the engine invokes the current state's onUpdate
   (lines 60-67 for PAYMENT, 83-90 for DISPENSING; the other two do
   nothing); what the trigger returns is dropped. *)
vendingUpdate(v, deltaTime) ==
  LET current == getCurrentState(v.fsm).ret IN
  IF current = "PAYMENT"
  THEN LET ticked == [v EXCEPT !.paymentTimer = @ + deltaTime] IN
       IF ticked.paymentTimer >= PaymentTimeout
       THEN [vendingTrigger(ticked, "CANCEL") EXCEPT !.ret = "void"]
       ELSE [v |-> ticked, raised |-> "none", ret |-> "void"]
  ELSE IF current = "DISPENSING"
  THEN LET ticked == [v EXCEPT !.dispenseTimer = @ + deltaTime] IN
       IF ticked.dispenseTimer >= DispenseDuration
       THEN [vendingTrigger(ticked, "DISPENSE_COMPLETE") EXCEPT !.ret = "void"]
       ELSE [v |-> ticked, raised |-> "none", ret |-> "void"]
  ELSE [v |-> v, raised |-> "none", ret |-> "void"]

(* What the calls are made with: two coins, two items of the inventory and
   an id that is not in it, a short and a long tick. *)
Coins == {50, 100}

ItemIds == {"A1", "A2", "Z9"}

VendingDeltaTimes == {DispenseDuration \div 2, PaymentTimeout \div 2}

(* No selection is being followed: see VendingCall. *)
NotFollowed == [item |-> "none", quantity |-> 0, updated |-> 0]

NoVendingCall ==
  [op |-> "new", arg |-> "none", pre |-> NewVendingMachine,
   raised |-> "none", ret |-> "void", paidFor |-> NotFollowed]

(***************************************************************************)
(* The ElevatorController (src/src/examples/ElevatorController.ts, lines   *)
(* 16-406): two StateMachines, mainFSM for the car and doorFSM for the     *)
(* door, beside the floor the car is at, the floor it heads for, the       *)
(* pending calls and the doorOpen flag.  floorRequests is a Set, which     *)
(* iterates in insertion order: it is the sequence of its members in that  *)
(* order.  No call on a machine raises here, both having been started by   *)
(* the constructor.                                                        *)
(***************************************************************************)
DoorOpeningDuration == 2000
DoorOpenDuration == 5000
DoorClosingDuration == 2000
floorTime == 3000

DoorStateNames == {"DOOR_CLOSED", "DOOR_OPENING", "DOOR_OPEN", "DOOR_CLOSING"}

MainStateNames == {"IDLE", "MOVING_UP", "MOVING_DOWN"}

Moving == {"MOVING_UP", "MOVING_DOWN"}

TimedStateNames == (DoorStateNames \ {"DOOR_CLOSED"}) \cup Moving

(* The door's states (lines 16-92): DOOR_CLOSED has onEnter alone, the other
   three onEnter and onUpdate. *)
DoorStates ==
  [n \in DoorStateNames |->
     StateObject(n, IF n = "DOOR_CLOSED" THEN {"onEnter"}
                    ELSE {"onEnter", "onUpdate"})]

(* The car's states (lines 95-178): onEnter and onUpdate each. *)
MainStates == [n \in MainStateNames |-> StateObject(n, {"onEnter", "onUpdate"})]

(* The door's rules (lines 206-242), in order. *)
DoorTransitions ==
  <<Rule("DOOR_CLOSED", "DOOR_OPENING", "OPEN_DOOR", "none", "none"),
    Rule("DOOR_OPENING", "DOOR_OPEN", "OPEN_COMPLETE", "none", "none"),
    Rule("DOOR_OPEN", "DOOR_CLOSING", "DOOR_TIMEOUT", "none", "none"),
    Rule("DOOR_OPEN", "DOOR_CLOSING", "CLOSE_DOOR", "none", "none"),
    Rule("DOOR_CLOSING", "DOOR_CLOSED", "CLOSE_COMPLETE", "none", "none"),
    Rule("DOOR_CLOSING", "DOOR_OPENING", "OPEN_DOOR", "none", "reopen")>>

(* The car's rules (lines 254-301), in order. *)
MainTransitions ==
  <<Rule("IDLE", "MOVING_UP", "MOVE_UP", "isDoorClosed", "none"),
    Rule("IDLE", "MOVING_DOWN", "MOVE_DOWN", "isDoorClosed", "none"),
    Rule("MOVING_UP", "IDLE", "FLOOR_REACHED", "none", "arrive"),
    Rule("MOVING_DOWN", "IDLE", "FLOOR_REACHED", "none", "arrive"),
    Rule("IDLE", "IDLE", "OPEN_DOOR", "none", "openDoor"),
    Rule("*", "IDLE", "EMERGENCY_STOP", "none", "none")>>

(* isDoorClosed (lines 366-368). *)
isDoorClosed(e) == ~e.doorOpen

(* setDoorStatus (lines 362-364). *)
setDoorStatus(e, open) == [e EXCEPT !.doorOpen = open]

(* Set.prototype.add and delete on the pending calls. *)
add(requests, floor) ==
  IF \E i \in 1..Len(requests) : requests[i] = floor THEN requests
  ELSE Append(requests, floor)

delete(requests, floor) == SelectSeq(requests, LAMBDA f : f # floor)

abs(n) == IF n < 0 THEN 0 - n ELSE n

(* getNextFloor (lines 370-382): the stable sort by distance puts first the
   earliest inserted of the closest floors; 0 is null. *)
getNextFloor(e) ==
  IF e.floorRequests = <<>> THEN 0
  ELSE LET requests == e.floorRequests
           far(i) == abs(requests[i] - e.currentFloor)
           first == CHOOSE i \in 1..Len(requests) :
                      \A j \in 1..Len(requests) :
                        far(i) < far(j) \/ (far(i) = far(j) /\ i <= j)
       IN requests[first]

(* incrementFloor (lines 350-354) and decrementFloor (lines 356-360). *)
incrementFloor(e) ==
  IF e.currentFloor < e.totalFloors THEN [e EXCEPT !.currentFloor = @ + 1] ELSE e

decrementFloor(e) ==
  IF e.currentFloor > 1 THEN [e EXCEPT !.currentFloor = @ - 1] ELSE e

(* One hook of the door's states: DoorClosedState.onEnter and
   DoorOpenState.onEnter set the doorOpen flag, the timed states' onEnter
   zero their timers; the door's one action logs. *)
doorHook(e, call) ==
  IF call.hook # "onEnter" THEN e
  ELSE IF call.of = "DOOR_CLOSED" THEN setDoorStatus(e, FALSE)
  ELSE IF call.of = "DOOR_OPEN"
  THEN setDoorStatus([e EXCEPT !.timer[call.of] = 0], TRUE)
  ELSE [e EXCEPT !.timer[call.of] = 0]

RECURSIVE doorHooksRun(_, _)
doorHooksRun(e, calls) ==
  IF calls = <<>> THEN e
  ELSE doorHooksRun(doorHook(e, Head(calls)), Tail(calls))

NoGuards == [g \in {} |-> TRUE]

(* `doorFSM.trigger(event)`: none of the door's rules has a guard. *)
doorTrigger(e, event) ==
  CHOOSE done \in
    {doorHooksRun([e EXCEPT !.doorFSM = out.m], out.calls) :
       out \in {trigger(e.doorFSM, NoGuards, event)}} : TRUE

(* One hook or action of the car's machine: the FLOOR_REACHED action (lines
   272-275, 283-286) deletes the call for the floor the car is at and asks
   the door to open, the OPEN_DOOR action (line 293) asks the door to open,
   the moving states' onEnter zero their timers; the others log. *)
mainHook(e, call) ==
  IF call.hook = "action" /\ call.of = "arrive"
  THEN doorTrigger([e EXCEPT !.floorRequests = delete(@, e.currentFloor)],
                   "OPEN_DOOR")
  ELSE IF call.hook = "action" /\ call.of = "openDoor"
  THEN doorTrigger(e, "OPEN_DOOR")
  ELSE IF call.hook = "onEnter" /\ call.of \in Moving
  THEN [e EXCEPT !.timer[call.of] = 0]
  ELSE e

RECURSIVE mainHooksRun(_, _)
mainHooksRun(e, calls) ==
  IF calls = <<>> THEN e
  ELSE mainHooksRun(mainHook(e, Head(calls)), Tail(calls))

(* `mainFSM.trigger(event)`: the guard closures (lines 258, 265) read the
   doorOpen flag as it is when trigger is called. *)
mainTrigger(e, event) ==
  CHOOSE done \in
    {mainHooksRun([e EXCEPT !.mainFSM = out.m], out.calls) :
       out \in {trigger(e.mainFSM, [isDoorClosed |-> isDoorClosed(e)], event)}} :
      TRUE

(* The constructor (lines 190-304) for a building of totalFloors floors:
   `doorFSM.start('DOOR_CLOSED')`, then `mainFSM.start('IDLE')`. *)
ElevatorController(totalFloors) ==
  CHOOSE done \in
    {mainHooksRun([doorHooksRun([built EXCEPT !.doorFSM = door.m], door.calls)
                     EXCEPT !.mainFSM = main.m], main.calls) :
       built \in {[mainFSM |-> [currentState |-> null, states |-> MainStates,
                                transitions |-> MainTransitions,
                                history |-> <<>>],
                   doorFSM |-> [currentState |-> null, states |-> DoorStates,
                                transitions |-> DoorTransitions,
                                history |-> <<>>],
                   currentFloor |-> 1,
                   targetFloor |-> 1,
                   floorRequests |-> <<>>,
                   doorOpen |-> FALSE,
                   totalFloors |-> totalFloors,
                   timer |-> [n \in TimedStateNames |-> 0]]},
       door \in {start([currentState |-> null, states |-> DoorStates,
                        transitions |-> DoorTransitions, history |-> <<>>],
                       "DOOR_CLOSED")},
       main \in {start([currentState |-> null, states |-> MainStates,
                        transitions |-> MainTransitions, history |-> <<>>],
                       "IDLE")}} : TRUE

NewElevatorController == ElevatorController(MaxFloors)

(* callElevator (lines 307-315). *)
callElevator(e, floor) ==
  IF floor < 1 \/ floor > e.totalFloors THEN e
  ELSE [e EXCEPT !.floorRequests = add(@, floor)]

(* openDoor (lines 317-319), closeDoor (lines 321-323) and emergencyStop
   (lines 325-327). *)
openDoor(e) == doorTrigger(e, "OPEN_DOOR")

closeDoor(e) == doorTrigger(e, "CLOSE_DOOR")

emergencyStop(e) == mainTrigger(e, "EMERGENCY_STOP")

(* ElevatorIdleState.onUpdate (lines 104-119). *)
idleOnUpdate(e) ==
  LET nextFloor == getNextFloor(e) IN
  IF nextFloor = 0 THEN e
  ELSE LET headed == [e EXCEPT !.targetFloor = nextFloor] IN
       IF nextFloor > e.currentFloor THEN mainTrigger(headed, "MOVE_UP")
       ELSE IF nextFloor < e.currentFloor THEN mainTrigger(headed, "MOVE_DOWN")
       ELSE mainTrigger(headed, "OPEN_DOOR")

(* ElevatorMovingUpState.onUpdate (lines 135-148) and
   ElevatorMovingDownState.onUpdate (lines 164-177). *)
movingOnUpdate(e, stateName, deltaTime) ==
  LET ticked == [e EXCEPT !.timer[stateName] = @ + deltaTime] IN
  IF ticked.timer[stateName] < floorTime THEN ticked
  ELSE LET moved == IF stateName = "MOVING_UP"
                    THEN incrementFloor([ticked EXCEPT !.timer[stateName] = 0])
                    ELSE decrementFloor([ticked EXCEPT !.timer[stateName] = 0])
       IN IF \/ stateName = "MOVING_UP" /\ moved.currentFloor >= moved.targetFloor
             \/ stateName = "MOVING_DOWN" /\ moved.currentFloor <= moved.targetFloor
          THEN mainTrigger(moved, "FLOOR_REACHED")
          ELSE moved

(* The onUpdate of the door's timed states (lines 39-45, 61-67, 83-89): each
   triggers its event once its timer has reached its duration. *)
doorOnUpdate(e, stateName, deltaTime) ==
  IF stateName = "DOOR_CLOSED" THEN e
  ELSE LET ticked == [e EXCEPT !.timer[stateName] = @ + deltaTime] IN
       IF stateName = "DOOR_OPENING"
       THEN IF ticked.timer[stateName] >= DoorOpeningDuration
            THEN doorTrigger(ticked, "OPEN_COMPLETE") ELSE ticked
       ELSE IF stateName = "DOOR_OPEN"
       THEN IF ticked.timer[stateName] >= DoorOpenDuration
            THEN doorTrigger(ticked, "DOOR_TIMEOUT") ELSE ticked
       ELSE IF ticked.timer[stateName] >= DoorClosingDuration
            THEN doorTrigger(ticked, "CLOSE_COMPLETE") ELSE ticked

mainState(e) == e.mainFSM.currentState[1].name

doorState(e) == e.doorFSM.currentState[1].name

(* update (lines 384-387): `mainFSM.update`, then `doorFSM.update`, each
   invoking the onUpdate of the state its machine is in by then. *)
elevatorUpdate(e, deltaTime) ==
  CHOOSE done \in
    {doorOnUpdate(car, doorState(car), deltaTime) :
       car \in {IF mainState(e) = "IDLE" THEN idleOnUpdate(e)
                ELSE movingOnUpdate(e, mainState(e), deltaTime)}} : TRUE

Floors == 0..(MaxFloors + 1)

ElevatorDeltaTimes == {1000, floorTime}

(***************************************************************************)
(* The ParkingGarage (src/src/examples/ElevatorController.ts, lines        *)
(* 423-797): a StateMachine for the gate beside the gate's position, the   *)
(* vehicle sensor, the ticket in hand, the count of occupied spaces and    *)
(* the tickets issued.  A ticket in hand is the very object the database   *)
(* holds, so currentTicket is the ticket's id ("none" for null) and a      *)
(* ticket's fields are read and written in ticketDatabase; a ticket's      *)
(* entryTime is used for a log line only and is left out.                  *)
(***************************************************************************)
ScanTimeout == 10000
GateOpeningDuration == 3000
GateOpenTimeout == 10000
GateClosingDuration == 3000

GateStateNames ==
  {"GATE_CLOSED", "SCANNING_TICKET", "GATE_OPENING", "GATE_OPEN", "GATE_CLOSING"}

GateTimedNames == GateStateNames \ {"GATE_CLOSED"}

(* The gate's states (lines 424-547): onEnter and onUpdate each, and
   ScanningTicketState an onExit too. *)
GateStates ==
  [n \in GateStateNames |->
     StateObject(n, IF n = "SCANNING_TICKET" THEN HookNames
                    ELSE {"onEnter", "onUpdate"})]

(* The rules setupStateMachine registers (lines 574-663), in order. *)
GateTransitions ==
  <<Rule("GATE_CLOSED", "SCANNING_TICKET", "VEHICLE_DETECTED",
         "hasAvailableSpaces", "detected"),
    Rule("GATE_CLOSED", "GATE_CLOSED", "VEHICLE_DETECTED", "isFull", "full"),
    Rule("SCANNING_TICKET", "GATE_OPENING", "TICKET_VALID", "none", "recordEntry"),
    Rule("SCANNING_TICKET", "GATE_CLOSED", "TICKET_INVALID", "none", "dropTicket"),
    Rule("GATE_OPENING", "GATE_OPEN", "GATE_FULLY_OPEN", "none", "none"),
    Rule("GATE_OPEN", "GATE_CLOSING", "VEHICLE_CLEARED", "none", "passed"),
    Rule("GATE_OPEN", "GATE_CLOSING", "TIMEOUT", "none", "none"),
    Rule("GATE_CLOSING", "GATE_CLOSED", "GATE_FULLY_CLOSED", "none", "dropTicket"),
    Rule("GATE_CLOSING", "GATE_OPENING", "VEHICLE_DETECTED", "none", "reopen"),
    Rule("*", "GATE_OPEN", "EMERGENCY_OPEN", "none", "forceOpen"),
    Rule("*", "GATE_CLOSED", "EMERGENCY_CLOSE", "none", "forceClosed")>>

(* hasAvailableSpaces (lines 751-753). *)
hasAvailableSpaces(g) == g.occupiedSpaces < g.totalSpaces

(* recordEntry (lines 755-766). *)
recordEntry(g) ==
  IF g.currentTicket # "none" /\ ~g.ticketDatabase[g.currentTicket].paid
  THEN [g EXCEPT !.occupiedSpaces = @ + 1]
  ELSE IF g.currentTicket # "none" /\ g.ticketDatabase[g.currentTicket].paid
  THEN [g EXCEPT !.occupiedSpaces = @ - 1,
                 !.ticketDatabase[g.currentTicket].valid = FALSE]
  ELSE g

(* setGatePosition (lines 739-741). *)
setGatePosition(g, position) ==
  [g EXCEPT !.gatePosition = IF position < 0 THEN 0
                             ELSE IF position > 100 THEN 100 ELSE position]

(* `Math.min(timer / this.duration, 1.0) * 100` (lines 483-484, 533-534); the
   ticks the model makes give a whole number. *)
progress(timer, total) ==
  ((IF timer < total THEN timer ELSE total) * 100) \div total

(* The outcomes of the two guard closures (lines 578, 586) on garage g. *)
garageGuards(g) ==
  [hasAvailableSpaces |-> hasAvailableSpaces(g), isFull |-> ~hasAvailableSpaces(g)]

(* One hook or action of the gate's machine: the onEnter of the states
   (lines 429-432, 447-450, 474-477, 500-504, 524-527) and the actions of
   the rules; the others log. *)
garageHook(g, call) ==
  IF call.hook = "onEnter"
  THEN IF call.of = "GATE_CLOSED" THEN setGatePosition(g, 0)
       ELSE IF call.of = "GATE_OPEN"
       THEN setGatePosition([g EXCEPT !.timer[call.of] = 0], 100)
       ELSE [g EXCEPT !.timer[call.of] = 0]
  ELSE IF call.hook # "action" THEN g
  ELSE IF call.of = "recordEntry" THEN recordEntry(g)
  ELSE IF call.of = "dropTicket" THEN [g EXCEPT !.currentTicket = "none"]
  ELSE IF call.of = "forceOpen" THEN [g EXCEPT !.gatePosition = 100]
  ELSE IF call.of = "forceClosed" THEN [g EXCEPT !.gatePosition = 0]
  ELSE g

RECURSIVE garageHooksRun(_, _)
garageHooksRun(g, calls) ==
  IF calls = <<>> THEN g
  ELSE garageHooksRun(garageHook(g, Head(calls)), Tail(calls))

(* `this.fsm.trigger(event)` on the gate's machine. *)
garageTrigger(g, event) ==
  CHOOSE done \in
    {garageHooksRun([g EXCEPT !.fsm = out.m], out.calls) :
       out \in {trigger(g.fsm, garageGuards(g), event)}} : TRUE

(* The constructor (lines 559-563, 565-666) for a garage of totalSpaces
   spaces, ending in `fsm.start('GATE_CLOSED')`. *)
ParkingGarage(totalSpaces) ==
  CHOOSE done \in
    {garageHooksRun([built EXCEPT !.fsm = out.m], out.calls) :
       built \in {[fsm |-> [currentState |-> null, states |-> GateStates,
                            transitions |-> GateTransitions, history |-> <<>>],
                   gatePosition |-> 0,
                   vehicleInGateway |-> FALSE,
                   currentTicket |-> "none",
                   totalSpaces |-> totalSpaces,
                   occupiedSpaces |-> 0,
                   ticketDatabase |-> [id \in {} |-> [valid |-> TRUE, paid |-> FALSE]],
                   timer |-> [n \in GateTimedNames |-> 0]]},
       out \in {start([currentState |-> null, states |-> GateStates,
                       transitions |-> GateTransitions, history |-> <<>>],
                      "GATE_CLOSED")}} : TRUE

NewParkingGarage == ParkingGarage(MaxSpaces)

(* vehicleArrived (lines 669-672) and vehicleCleared (lines 702-705). *)
vehicleArrived(g) ==
  garageTrigger([g EXCEPT !.vehicleInGateway = TRUE], "VEHICLE_DETECTED")

vehicleCleared(g) ==
  garageTrigger([g EXCEPT !.vehicleInGateway = FALSE], "VEHICLE_CLEARED")

(* scanTicket (lines 674-700). *)
scanTicket(g, ticketId) ==
  IF ticketId \notin DOMAIN g.ticketDatabase
  THEN garageTrigger(
         [g EXCEPT !.currentTicket = ticketId,
                   !.ticketDatabase =
                      [id \in DOMAIN g.ticketDatabase \cup {ticketId} |->
                         IF id = ticketId THEN [valid |-> TRUE, paid |-> FALSE]
                         ELSE g.ticketDatabase[id]]],
         "TICKET_VALID")
  ELSE IF g.ticketDatabase[ticketId].valid /\ g.ticketDatabase[ticketId].paid
  THEN garageTrigger([g EXCEPT !.currentTicket = ticketId], "TICKET_VALID")
  ELSE garageTrigger(g, "TICKET_INVALID")

(* payTicket (lines 707-724); what it returns is left out. *)
payTicket(g, ticketId) ==
  IF ticketId \notin DOMAIN g.ticketDatabase THEN g
  ELSE [g EXCEPT !.ticketDatabase[ticketId].paid = TRUE]

(* emergencyOpen (lines 726-728) and emergencyClose (lines 730-732). *)
emergencyOpen(g) == garageTrigger(g, "EMERGENCY_OPEN")

emergencyClose(g) == garageTrigger(g, "EMERGENCY_CLOSE")

gateState(g) == g.fsm.currentState[1].name

(* update (lines 768-770): the onUpdate of the state the gate is in (lines
   434-436, 452-459, 479-489, 506-513, 529-546). *)
garageUpdate(g, deltaTime) ==
  LET stateName == gateState(g) IN
  IF stateName = "GATE_CLOSED" THEN g
  ELSE LET ticked == [g EXCEPT !.timer[stateName] = @ + deltaTime]
           timer == ticked.timer[stateName]
       IN IF stateName = "SCANNING_TICKET"
          THEN IF timer >= ScanTimeout
               THEN garageTrigger(ticked, "TICKET_INVALID") ELSE ticked
          ELSE IF stateName = "GATE_OPENING"
          THEN LET opened == setGatePosition(
                               ticked, progress(timer, GateOpeningDuration))
               IN IF timer >= GateOpeningDuration
                  THEN garageTrigger(opened, "GATE_FULLY_OPEN") ELSE opened
          ELSE IF stateName = "GATE_OPEN"
          THEN IF timer >= GateOpenTimeout
               THEN garageTrigger(ticked, "TIMEOUT") ELSE ticked
          ELSE LET closed == setGatePosition(
                               ticked, 100 - progress(timer, GateClosingDuration))
               IN IF closed.vehicleInGateway
                  THEN garageTrigger(closed, "VEHICLE_DETECTED")
                  ELSE IF timer >= GateClosingDuration
                  THEN garageTrigger(closed, "GATE_FULLY_CLOSED")
                  ELSE closed

TicketIds == {"T1", "T2"}

GarageDeltaTimes == {GateOpeningDuration \div 2, ScanTimeout \div 2}

(***************************************************************************)
(* The engine with hooks that raise and hooks that call trigger on their   *)
(* own machine.  A call of start, trigger or update is then not one step:  *)
(* it is a frame on the call stack that runs the statements of start       *)
(* (lines 136-143), transitionTo (lines 180-197) or update (lines 205-208) *)
(* one at a time; a hook that is running may return, raise, or first call  *)
(* trigger, which puts a frame on top.  The engine catches nothing, so a   *)
(* hook that raises ends every call in progress.                           *)
(***************************************************************************)
HookSteps == {"onExit", "action", "onEnter", "onUpdate"}

(* A transitionTo that invokes onEnter before it appends to the history. *)
transitionToStepsEnterBeforePush == <<"onExit", "action", "assign", "onEnter", "push">>

(* A transitionTo that changes the state before it invokes onExit. *)
transitionToStepsAssignFirst == <<"assign", "push", "onExit", "action", "onEnter">>

(* The statements of transitionTo after the target was found (lines
   180-197), of start after its checks (lines 136-143) and of update (lines
   205-208), in order. *)
transitionToSteps == <<"onExit", "action", "assign", "push", "onEnter">>

startSteps == <<"assign", "push", "onEnter">>

updateSteps == <<"onUpdate">>

(* The machine under the hooks: two states with all three hooks; a guarded
   rule with an action, a rule without either, a wildcard rule. *)
HookedMachine ==
  [currentState |-> null,
   states |-> [n \in {"A", "B"} |-> StateObject(n, HookNames)],
   transitions |-> <<Rule("A", "B", "GO", "g1", "act"),
                     Rule("B", "A", "GO", "none", "none"),
                     Rule("*", "A", "PANIC", "none", "act")>>,
   history |-> <<>>]

NoFault == [hook |-> "none", op |-> "none", to |-> "none", triggered |-> FALSE,
            began |-> HookedMachine, m |-> HookedMachine]

NewHooked ==
  [m |-> HookedMachine, stack |-> <<>>,
   call |-> [op |-> "new", raised |-> "none", ret |-> "void",
             began |-> HookedMachine, fault |-> NoFault, retry |-> FALSE]]

(* Whether statement n of frame f is run: a hook the state does not define
   and an action the rule does not have are skipped (lines 141, 181, 186,
   195, 206). *)
runs(m, f, n) ==
  IF f.steps[n] = "action" THEN f.action # "none"
  ELSE IF f.steps[n] = "onExit"
  THEN m.currentState # null /\ "onExit" \in m.currentState[1].hooks
  ELSE IF f.steps[n] = "onEnter" THEN "onEnter" \in m.states[f.to].hooks
  ELSE IF f.steps[n] = "onUpdate" THEN "onUpdate" \in m.currentState[1].hooks
  ELSE TRUE

(* The frame of a call begun on machine m, at its first statement. *)
Frame(op, steps, to, action, m) ==
  [op |-> op, steps |-> steps, at |-> 1, to |-> to, action |-> action,
   began |-> m, triggered |-> FALSE]

(* The stack once the statement the top frame is at has been executed: the
   frame moves to its next statement that is run, and a frame with none left
   returns to the one below it. *)
RECURSIVE proceed(_, _, _)
proceed(m, stack, n) ==
  LET f == stack[Len(stack)] IN
  IF n > Len(f.steps) THEN SubSeq(stack, 1, Len(stack) - 1)
  ELSE IF runs(m, f, n) THEN [stack EXCEPT ![Len(stack)].at = n]
  ELSE proceed(m, stack, n + 1)

(***************************************************************************)
(* The decision endpoint (src/api/server.ts): computeNextState decides     *)
(* from the state's name and the seconds spent in it, without a machine.   *)
(* The reason text of the answer is left out.                              *)
(***************************************************************************)
STATE_DURATIONS == [RED |-> 30, GREEN |-> 25, YELLOW |-> 5]

STATE_TRANSITIONS == [RED |-> "GREEN", GREEN |-> "YELLOW", YELLOW |-> "RED"]

(* An optional field of the request body that is absent; <<n>> is the
   field present with value n. *)
undefined == <<>>

(* isLocalLanePriority (src/api/priority.ts, lines 22-60) with its default
   thresholds; `waitingVehicles / competingSafe >= 1.5` is stated without
   the division.  Of the reason only its kind is kept. *)
minWaitingThreshold == 3
maxCompetingThreshold == 2

isLocalLanePriority(waitingVehicles, competingTraffic) ==
  IF competingTraffic = 0 /\ waitingVehicles > 0
  THEN [shouldSwitch |-> TRUE, reason |-> "No competing traffic"]
  ELSE LET competingSafe == IF competingTraffic = 0 THEN 1 ELSE competingTraffic
           meetsThreshold == /\ waitingVehicles >= minWaitingThreshold
                             /\ competingTraffic <= maxCompetingThreshold
           meetsRatio == 2 * waitingVehicles >= 3 * competingSafe
       IN [shouldSwitch |-> meetsThreshold \/ meetsRatio,
           reason |-> IF meetsThreshold THEN "Threshold met"
                      ELSE IF meetsRatio THEN "Priority ratio met"
                      ELSE "No priority"]

(* The note computeNextState appends to its reason (lines 85-92). *)
priorityNote(waitingVehicles, competingTraffic) ==
  IF waitingVehicles # undefined /\ competingTraffic # undefined
  THEN LET priority == isLocalLanePriority(waitingVehicles[1], competingTraffic[1])
       IN IF priority.shouldSwitch
          THEN <<"Priority", priority.reason>>
          ELSE <<"Priority check", priority.reason>>
  ELSE <<>>

(* computeNextState that takes the timer as expired only once the seconds
   have passed the duration. *)
computeNextStateStrict(stateName, secondsElapsed, waitingVehicles, competingTraffic) ==
  IF ~(secondsElapsed > STATE_DURATIONS[stateName])
  THEN [nextState |-> stateName, transitioned |-> FALSE,
        reason |-> <<"Timer not expired">>]
  ELSE [nextState |-> STATE_TRANSITIONS[stateName], transitioned |-> TRUE,
        reason |-> <<"Timer expired">>
                     \o priorityNote(waitingVehicles, competingTraffic)]

(* computeNextState that lets a RED light go early when the priority logic
   says the local lanes should switch. *)
computeNextStateByPriority(stateName, secondsElapsed, waitingVehicles, competingTraffic) ==
  LET timerExpired == secondsElapsed >= STATE_DURATIONS[stateName]
      note == priorityNote(waitingVehicles, competingTraffic)
  IN IF ~timerExpired /\ ~(stateName = "RED" /\ note # <<>> /\ note[1] = "Priority")
     THEN [nextState |-> stateName, transitioned |-> FALSE,
           reason |-> <<"Timer not expired">>]
     ELSE [nextState |-> STATE_TRANSITIONS[stateName], transitioned |-> TRUE,
           reason |-> <<"Timer expired">> \o note]

(* computeNextState (lines 59-101); of the reason the kind of each part is
   kept, not the numbers in it. *)
computeNextState(stateName, secondsElapsed, waitingVehicles, competingTraffic) ==
  LET timerExpired == secondsElapsed >= STATE_DURATIONS[stateName] IN
  IF ~timerExpired
  THEN [nextState |-> stateName, transitioned |-> FALSE,
        reason |-> <<"Timer not expired">>]
  ELSE [nextState |-> STATE_TRANSITIONS[stateName], transitioned |-> TRUE,
        reason |-> <<"Timer expired">>
                     \o priorityNote(waitingVehicles, competingTraffic)]

(* A TrafficLightController that has just entered state name: started, and
   taken to the state by forceRed, forceGreen or forceYellow. *)
lightIn(name) ==
  manual(controllerStart(NewTrafficLightController).c,
         IF name = "RED" THEN "FORCE_RED"
         ELSE IF name = "GREEN" THEN "FORCE_GREEN" ELSE "FORCE_YELLOW").c

(* A request that passes the handler's validation (lines 107-148) with its
   answer, beside the controller `light`. *)
Asked(stateName, secondsElapsed, waitingVehicles, competingTraffic, light) ==
  [currentState |-> stateName, secondsElapsed |-> secondsElapsed,
   waitingVehicles |-> waitingVehicles, competingTraffic |-> competingTraffic,
   response |-> computeNextState(stateName, secondsElapsed,
                                 waitingVehicles, competingTraffic),
   light |-> light]

(* The values of an optional count: absent, or 0 .. MaxVehicles. *)
OptionalCount == {undefined} \cup {<<n>> : n \in 0..MaxVehicles}

(* The deltaTimes the lights are ticked with: the 10 ms and 1000 ms of the
   controller's tests and a coarse tick of one yellow phase. *)
CoarseTick == YellowDuration

(* A tick as long as a whole RED, GREEN, YELLOW cycle. *)
WholeCycle == RedDuration + GreenDuration + YellowDuration

LightDeltaTimes == {10, 1000, CoarseTick, WholeCycle}

CrossDeltaTimes == {CoarseTick}

ManualControls == {"emergencyOverride", "forceGreen", "forceYellow", "forceRed"}

Init ==
  /\ controller = NewTrafficLightController
  /\ controllerCall = [op |-> "new", arg |-> 0,
                       pre |-> [fsm |-> NewTrafficLightController.fsm,
                                isRunning |-> FALSE],
                       same |-> TRUE, raised |-> "none", ret |-> "void"]
  /\ run = [cadence |-> 0, ticks |-> 0, manual |-> FALSE, reached |-> 0,
            sinceEntry |-> 0]
  /\ intersection = NewIntersectionController
  /\ intersectionCall = [op |-> "new", arg |-> "none",
                         pre |-> NewIntersectionController,
                         raised |-> "none", ret |-> "void", log |-> <<>>]
  /\ decision = [currentState |-> "NONE", secondsElapsed |-> 0,
                 waitingVehicles |-> undefined, competingTraffic |-> undefined,
                 response |-> [nextState |-> "NONE", transitioned |-> FALSE,
                               reason |-> <<>>],
                 light |-> NewTrafficLightController]
  /\ vending = NewVendingMachine
  /\ vendingCall = NoVendingCall
  /\ hooked = NewHooked
  /\ elevator = NewElevatorController
  /\ garage = NewParkingGarage
  /\ currentState = NewMachine.currentState
  /\ states = NewMachine.states
  /\ transitions = NewMachine.transitions
  /\ history = NewMachine.history
  /\ result = [op |-> "new", arg |-> "none", pre |-> NewMachine, gv |-> NoGuard,
               raised |-> "none", ret |-> "void", calls |-> <<>>, evals |-> <<>>,
               rule |-> 0]
  /\ mutations = 0
  /\ expected = <<>>
  /\ successes = 0
  /\ seen = <<>>

(* A call of method op with argument arg, under the guard outcomes gv, whose
   outcome is out. *)
Perform(op, arg, gv, out) ==
  /\ Len(out.m.history) <= MaxHistory
  /\ Len(out.m.transitions) <= MaxTransitions
  /\ currentState' = out.m.currentState
  /\ states' = out.m.states
  /\ transitions' = out.m.transitions
  /\ history' = out.m.history
  /\ result' = [op |-> op, arg |-> arg, pre |-> Machine, gv |-> gv,
                raised |-> out.raised, ret |-> out.ret, calls |-> out.calls,
                evals |-> out.evals, rule |-> out.rule]
  /\ mutations' = 0
  /\ seen' = IF op = "trigger" THEN triggerViews(Machine, gv, arg) ELSE <<>>
  /\ UNCHANGED <<lightsVars, exampleVars>>

AddState ==
  \E state \in State :
    /\ Perform("addState", state, NoGuard, addState(Machine, state))
    /\ UNCHANGED <<expected, successes>>

AddTransition ==
  \E transition \in Transition :
    /\ Perform("addTransition", transition, NoGuard, addTransition(Machine, transition))
    /\ UNCHANGED <<expected, successes>>

Start ==
  \E stateName \in StateNames :
    LET out == start(Machine, stateName) IN
    /\ Perform("start", stateName, NoGuard, out)
    /\ expected' = IF out.raised = "none" THEN <<stateName>> ELSE expected
    /\ UNCHANGED successes

Trigger ==
  \E event \in Events, gv \in GuardOutcomes(Machine) :
    LET out == trigger(Machine, gv, event)
        returnedTrue == out.raised = "none" /\ out.ret = TRUE
    IN
    /\ Perform("trigger", event, gv, out)
    /\ expected' =
         IF returnedTrue
         THEN Append(expected, getCurrentState(out.m).ret)
         ELSE expected
    /\ successes' = IF returnedTrue THEN successes + 1 ELSE successes

Update ==
  \E deltaTime \in DeltaTimes :
    /\ Perform("update", deltaTime, NoGuard, update(Machine, deltaTime))
    /\ UNCHANGED <<expected, successes>>

GetCurrentState ==
  /\ Perform("getCurrentState", "none", NoGuard, getCurrentState(Machine))
  /\ UNCHANGED <<expected, successes>>

GetHistory ==
  /\ Perform("getHistory", "none", NoGuard, getHistory(Machine))
  /\ UNCHANGED <<expected, successes>>

CanTransition ==
  \E event \in Events, gv \in GuardOutcomes(Machine) :
    /\ Perform("canTransition", event, gv, canTransition(Machine, gv, event))
    /\ UNCHANGED <<expected, successes>>

(* The caller changes the array it got from getHistory: it appends, removes
   the last element or overwrites the first.  If that array were the
   machine's own, the machine's history would change with it. *)
Mutated(items) ==
  {Append(items, "FAKE")}
    \cup (IF items = <<>> THEN {}
          ELSE {SubSeq(items, 1, Len(items) - 1), [items EXCEPT ![1] = "FAKE"]})

MutateReturned ==
  /\ result.op = "getHistory"
  /\ mutations < MaxMutations
  /\ \E items \in Mutated(result.ret.items) :
       /\ result' = [result EXCEPT !.ret.items = items]
       /\ history' = IF result.ret.alias THEN items ELSE history
  /\ mutations' = mutations + 1
  /\ UNCHANGED <<currentState, states, transitions, expected, successes, seen>>
  /\ UNCHANGED <<lightsVars, exampleVars>>

Next ==
  \/ AddState
  \/ AddTransition
  \/ Start
  \/ Trigger
  \/ Update
  \/ GetCurrentState
  \/ GetHistory
  \/ CanTransition
  \/ MutateReturned

Spec == Init /\ [][Next]_vars

(***************************************************************************)
(* The TrafficLightController driven by its caller.  A run is ticked at    *)
(* one cadence, the deltaTime of its first update; the manual controls are *)
(* used in runs of the coarse cadence (one tick per yellow phase) and in   *)
(* runs that have not ticked yet, while the history has at most            *)
(* MaxManualDepth entries; a run of the 10 ms cadence makes at most        *)
(* MaxFineTicks updates.                                                   *)
(***************************************************************************)
(* What the caller can see of a controller: the machine and isRunning (the
   timers are private to the state objects). *)
Seen(c) == [fsm |-> c.fsm, isRunning |-> c.isRunning]

ControllerCall(op, arg, out) ==
  /\ intersectionCall.op = "new"
  /\ Len(out.c.fsm.history) <= MaxLightHistory
  /\ controller' = out.c
  /\ controllerCall' = [op |-> op, arg |-> arg, pre |-> Seen(controller),
                        same |-> (out.c = controller),
                        raised |-> out.raised, ret |-> out.ret]
  /\ run' =
       [cadence |-> IF op = "update" /\ controller.isRunning /\ run.cadence = 0
                    THEN arg ELSE run.cadence,
        ticks |-> IF op = "update" /\ controller.isRunning
                  THEN run.ticks + 1 ELSE run.ticks,
        manual |-> IF op \in ManualControls /\ controller.isRunning
                   THEN TRUE ELSE run.manual,
        reached |-> IF op = "update" /\ controller.isRunning
                    THEN run.sinceEntry + arg ELSE run.reached,
        sinceEntry |-> IF Len(out.c.fsm.history) > Len(controller.fsm.history)
                       THEN 0
                       ELSE IF op = "update" /\ controller.isRunning
                       THEN run.sinceEntry + arg ELSE run.sinceEntry]
  /\ UNCHANGED <<engineVars, intersection, intersectionCall, exampleVars>>

ControllerStart == ControllerCall("start", 0, controllerStart(controller))

ControllerStop == ControllerCall("stop", 0, controllerStop(controller))

ControllerUpdate ==
  \E deltaTime \in LightDeltaTimes :
    /\ run.cadence \in {0, deltaTime}
    /\ IF deltaTime = CoarseTick THEN TRUE ELSE ~run.manual
    /\ IF deltaTime = 10 THEN run.ticks < MaxFineTicks ELSE TRUE
    /\ ControllerCall("update", deltaTime, controllerUpdate(controller, deltaTime))

ManualAllowed ==
  IF controller.isRunning
  THEN /\ run.cadence \in {0, CoarseTick}
       /\ Len(controller.fsm.history) <= MaxManualDepth
  ELSE TRUE

EmergencyOverride ==
  /\ ManualAllowed
  /\ ControllerCall("emergencyOverride", 0, emergencyOverride(controller))

ForceGreen ==
  /\ ManualAllowed
  /\ ControllerCall("forceGreen", 0, forceGreen(controller))

ForceYellow ==
  /\ ManualAllowed
  /\ ControllerCall("forceYellow", 0, forceYellow(controller))

ForceRed ==
  /\ ManualAllowed
  /\ ControllerCall("forceRed", 0, forceRed(controller))

ControllerGetCurrentState ==
  ControllerCall("getCurrentState", 0, controllerGetCurrentState(controller))

IsOperational == ControllerCall("isOperational", 0, isOperational(controller))

ControllerNext ==
  \/ ControllerStart
  \/ ControllerStop
  \/ ControllerUpdate
  \/ EmergencyOverride
  \/ ForceGreen
  \/ ForceYellow
  \/ ForceRed
  \/ ControllerGetCurrentState
  \/ IsOperational

(***************************************************************************)
(* The IntersectionController driven by its caller and by the timer queue: *)
(* a pending timeout's callback runs as a step of its own, at any time     *)
(* after it was set, the oldest first (all have the same delay).           *)
(***************************************************************************)
IntersectionCall(op, arg, out) ==
  /\ controllerCall.op = "new"
  /\ Len(out.x.northSouth.history) <= MaxCrossHistory
  /\ Len(out.x.eastWest.history) <= MaxCrossHistory
  /\ Len(out.x.northSouth.transitions) <= Len(nsTransitions) + MaxEmergencies
  /\ intersection' = out.x
  /\ intersectionCall' = [op |-> op, arg |-> arg, pre |-> intersection,
                          raised |-> out.raised, ret |-> out.ret, log |-> out.log]
  /\ UNCHANGED <<engineVars, controller, controllerCall, run, exampleVars>>

IntersectionStart == IntersectionCall("start", "none", intersectionStart(intersection))

IntersectionStop == IntersectionCall("stop", "none", intersectionStop(intersection))

IntersectionUpdate ==
  \E deltaTime \in CrossDeltaTimes :
    IntersectionCall("update", deltaTime, intersectionUpdate(intersection, deltaTime))

PedestrianButtonPressed ==
  \E direction \in Axes :
    IntersectionCall("pedestrianButtonPressed", direction,
                     pedestrianButtonPressed(intersection, direction))

EmergencyVehicle ==
  \E direction \in Axes :
    IntersectionCall("emergencyVehicle", direction,
                     emergencyVehicle(intersection, direction))

Timeout ==
  /\ intersection.timeouts # <<>>
  /\ IntersectionCall("timeout", Head(intersection.timeouts),
                      timeoutCallback(intersection))

GetStatus == IntersectionCall("getStatus", "none", getStatus(intersection))

IntersectionNext ==
  \/ IntersectionStart
  \/ IntersectionStop
  \/ IntersectionUpdate
  \/ PedestrianButtonPressed
  \/ EmergencyVehicle
  \/ Timeout
  \/ GetStatus

LightsNext ==
  \/ ControllerNext
  \/ IntersectionNext

LightsSpec == Init /\ [][LightsNext]_vars

(***************************************************************************)
(* The machines of an intersection started and triggered one at a time,    *)
(* the controller itself not running: the states the guards' catch         *)
(* branches are written for, one machine started and the other not yet.    *)
(***************************************************************************)
StaggeredStart ==
  \E d \in Axes, name \in LightNames :
    IntersectionCall("machineStart", d, machineStart(intersection, d, name))

StaggeredTrigger ==
  \E d \in Axes, event \in {"TIMER_EXPIRED", "EMERGENCY_OVERRIDE"} :
    IntersectionCall("machineTrigger", d, machineTrigger(intersection, d, event))

StaggerNext ==
  \/ StaggeredStart
  \/ StaggeredTrigger

StaggerSpec == Init /\ [][StaggerNext]_vars

(***************************************************************************)
(* The running intersection over unbounded time.  The controller never     *)
(* reads a machine's history, compares a timer only with a duration, and   *)
(* reads a state's timer only after the onEnter that zeroes it; so this    *)
(* specification keeps of each history its last entry, of the current      *)
(* state's timer its value up to TimerCap (above every duration and every  *)
(* tick) and of the other timers nothing: the lights then have finitely    *)
(* many states and their unbounded runs can be checked.  update is called  *)
(* again and again and every pending timeout fires (weak fairness of       *)
(* both), a timeout firing before more than MaxPending are pending;        *)
(* emergencyVehicle is called at most MaxEmergencies times; stop is not    *)
(* called.  The record of the last call names the axis of an emergency or  *)
(* a timeout and holds the triggers made.                                  *)
(***************************************************************************)
LongTick == RedDuration

LiveDeltaTimes == {CoarseTick, LongTick}

TimerCap == RedDuration + LongTick

lastOnly(h) == IF h = <<>> THEN h ELSE <<h[Len(h)]>>

Kept(x) ==
  [x EXCEPT !.northSouth.history = lastOnly(@),
            !.eastWest.history = lastOnly(@),
            !.timer = [d \in Axes |->
                         [n \in LightNames |->
                            IF n # stateOf(machineOf(x, d)) THEN 0
                            ELSE IF x.timer[d][n] > TimerCap THEN TimerCap
                            ELSE x.timer[d][n]]]]

LiveCall(op, arg, out) ==
  /\ controllerCall.op = "new"
  /\ \E v \in {out} :
       /\ Len(v.x.northSouth.transitions) <= Len(nsTransitions) + MaxEmergencies
       /\ intersection' = Kept(v.x)
       /\ intersectionCall' = [op |-> op, arg |-> arg, raised |-> v.raised,
                               ret |-> v.ret, log |-> v.log]
  /\ UNCHANGED <<engineVars, controller, controllerCall, run, exampleVars>>

LiveStart ==
  /\ ~intersection.isRunning
  /\ LiveCall("start", "none", intersectionStart(intersection))

LiveUpdate ==
  \E deltaTime \in LiveDeltaTimes :
    /\ Len(intersection.timeouts) <= MaxPending
    /\ LiveCall("update", "none", intersectionUpdate(intersection, deltaTime))

LiveEmergencyVehicle ==
  \E direction \in Axes :
    LiveCall("emergencyVehicle", direction,
             emergencyVehicle(intersection, direction))

LiveTimeout ==
  /\ intersection.timeouts # <<>>
  /\ LiveCall("timeout", Head(intersection.timeouts), timeoutCallback(intersection))

LiveNext ==
  \/ LiveStart
  \/ LiveUpdate
  \/ LiveEmergencyVehicle
  \/ LiveTimeout

LiveSpec ==
  /\ Init
  /\ [][LiveNext]_vars
  /\ WF_vars(LiveUpdate)
  /\ WF_vars(LiveTimeout)

(***************************************************************************)
(* The decision endpoint asked about a state after 0, 1, 2, ... seconds,   *)
(* beside a TrafficLightController that entered the same state and is      *)
(* updated by 1000 ms for every second.                                    *)
(***************************************************************************)
Observe ==
  \E stateName \in LightNames :
    /\ \E light \in {lightIn(stateName)} :
         \E waitingVehicles, competingTraffic \in OptionalCount :
           decision' = Asked(stateName, 0, waitingVehicles, competingTraffic, light)
    /\ UNCHANGED <<engineVars, lightsVars, vendingVars, hookVars, buildingVars>>

Elapse ==
  /\ decision.currentState \in LightNames
  /\ decision.secondsElapsed < MaxSeconds
  /\ \E light \in {controllerUpdate(decision.light, 1000).c} :
       \E waitingVehicles, competingTraffic \in OptionalCount :
         decision' = Asked(decision.currentState, decision.secondsElapsed + 1,
                           waitingVehicles, competingTraffic, light)
  /\ UNCHANGED <<engineVars, lightsVars, vendingVars, hookVars, buildingVars>>

EndpointNext ==
  \/ Observe
  \/ Elapse

EndpointSpec == Init /\ [][EndpointNext]_vars

(***************************************************************************)
(* Calls on one VendingMachine, in any order.  vendingCall records the     *)
(* call; its field paidFor follows a selection that was paid for in        *)
(* advance: the item, its quantity before the selection, and the time the  *)
(* machine has been updated for since, with no other call in between.      *)
(***************************************************************************)
VendingCall(op, arg, out, paidFor) ==
  \E r \in {out} :
    /\ Len(r.v.fsm.history) <= MaxVendingHistory
    /\ vending' = r.v
    /\ vendingCall' = [op |-> op, arg |-> arg, pre |-> vending,
                       raised |-> r.raised, ret |-> r.ret, paidFor |-> paidFor]
    /\ UNCHANGED <<engineVars, lightsVars, endpointVars, hookVars, buildingVars>>

InsertCoin ==
  \E amount \in Coins :
    /\ vending.insertedAmount + amount <= MaxInserted
    /\ VendingCall("insertCoin", amount, insertCoin(vending, amount), NotFollowed)

SelectItem ==
  \E itemId \in ItemIds :
    VendingCall("selectItem", itemId, selectItem(vending, itemId),
                IF /\ selectItem(vending, itemId).ret = TRUE
                   /\ vending.insertedAmount >= price[itemId]
                THEN [item |-> itemId, quantity |-> vending.inventory[itemId],
                      updated |-> 0]
                ELSE NotFollowed)

Cancel ==
  VendingCall("cancel", "none", cancel(vending), NotFollowed)

VendingUpdate ==
  \E deltaTime \in VendingDeltaTimes :
    VendingCall("update", deltaTime, vendingUpdate(vending, deltaTime),
                IF /\ vendingCall.paidFor.item # "none"
                   /\ vendingCall.paidFor.updated < DispenseDuration
                THEN [vendingCall.paidFor EXCEPT !.updated = @ + deltaTime]
                ELSE vendingCall.paidFor)

VendingNext ==
  \/ InsertCoin
  \/ SelectItem
  \/ Cancel
  \/ VendingUpdate

VendingSpec == Init /\ [][VendingNext]_vars

(***************************************************************************)
(* Calls on one ElevatorController of MaxFloors floors, in any order.      *)
(***************************************************************************)
(* What is left of a controller for the calls to come: neither machine's
   history is read by the class, and a state's timer is zeroed by its
   onEnter before it is read again. *)
Standing(e) ==
  [e EXCEPT !.mainFSM.history = lastOnly(@),
            !.doorFSM.history = lastOnly(@),
            !.timer = [n \in TimedStateNames |->
                         IF n \in {mainState(e), doorState(e)} THEN e.timer[n]
                         ELSE 0]]

ElevatorUnchanged ==
  UNCHANGED <<engineVars, lightsVars, endpointVars, vendingVars, hookVars, garage>>

CallElevator ==
  /\ \E floor \in Floors : elevator' = Standing(callElevator(elevator, floor))
  /\ ElevatorUnchanged

OpenDoor ==
  /\ elevator' = Standing(openDoor(elevator))
  /\ ElevatorUnchanged

CloseDoor ==
  /\ elevator' = Standing(closeDoor(elevator))
  /\ ElevatorUnchanged

EmergencyStop ==
  /\ elevator' = Standing(emergencyStop(elevator))
  /\ ElevatorUnchanged

ElevatorUpdate ==
  /\ \E deltaTime \in ElevatorDeltaTimes :
       elevator' = Standing(elevatorUpdate(elevator, deltaTime))
  /\ ElevatorUnchanged

ElevatorNext ==
  \/ CallElevator
  \/ OpenDoor
  \/ CloseDoor
  \/ EmergencyStop
  \/ ElevatorUpdate

ElevatorSpec == Init /\ [][ElevatorNext]_vars

(* The elevator left to its passengers' calls and the passing of time: no
   door button, no emergency stop, and update called again and again. *)
UnattendedNext ==
  \/ CallElevator
  \/ ElevatorUpdate

UnattendedSpec ==
  /\ Init
  /\ [][UnattendedNext]_vars
  /\ WF_vars(ElevatorUpdate)

(***************************************************************************)
(* Calls on one ParkingGarage of MaxSpaces spaces, in any order.  Of the   *)
(* garage is kept what the calls to come read: the machine's history is    *)
(* not read by the class, and a state's timer is zeroed by its onEnter     *)
(* before it is read again.                                                *)
(***************************************************************************)
Parked(g) ==
  [g EXCEPT !.fsm.history = lastOnly(@),
            !.timer = [n \in GateTimedNames |->
                         IF n = gateState(g) THEN g.timer[n] ELSE 0]]

GarageCall(out) ==
  /\ garage' = Parked(out)
  /\ UNCHANGED <<engineVars, lightsVars, endpointVars, vendingVars, hookVars,
                 elevator>>

VehicleArrived == GarageCall(vehicleArrived(garage))

ScanTicket == \E ticketId \in TicketIds : GarageCall(scanTicket(garage, ticketId))

VehicleCleared == GarageCall(vehicleCleared(garage))

PayTicket == \E ticketId \in TicketIds : GarageCall(payTicket(garage, ticketId))

EmergencyOpen == GarageCall(emergencyOpen(garage))

EmergencyClose == GarageCall(emergencyClose(garage))

GarageUpdate ==
  \E deltaTime \in GarageDeltaTimes : GarageCall(garageUpdate(garage, deltaTime))

GarageNext ==
  \/ VehicleArrived
  \/ ScanTicket
  \/ VehicleCleared
  \/ PayTicket
  \/ EmergencyOpen
  \/ EmergencyClose
  \/ GarageUpdate

GarageSpec == Init /\ [][GarageNext]_vars

(***************************************************************************)
(* The machine under hooks that raise and re-enter: calls of its caller,   *)
(* made while no call is in progress, the statements of the frames, and    *)
(* what a running hook does.                                               *)
(***************************************************************************)
Top == hooked.stack[Len(hooked.stack)]

InHook == hooked.stack # <<>> /\ Top.steps[Top.at] \in HookSteps

HookUnchanged ==
  UNCHANGED <<engineVars, lightsVars, endpointVars, vendingVars, buildingVars>>

Called(op, raised, ret) ==
  [op |-> op, raised |-> raised, ret |-> ret, began |-> hooked.m,
   fault |-> NoFault,
   retry |-> /\ op = "start"
             /\ hooked.call.fault.op = "start"
             /\ hooked.call.fault.hook = "onEnter"]

(* start (lines 126-144) called by the caller. *)
HookedStart ==
  \E stateName \in {"A", "B", "C"} :
    /\ hooked.stack = <<>>
    /\ IF get(hooked.m, stateName) = null
       THEN hooked' = [hooked EXCEPT !.call = Called("start", "StartStateNotFound", "void")]
       ELSE IF hooked.m.currentState # null
       THEN hooked' = [hooked EXCEPT !.call = Called("start", "AlreadyStarted", "void")]
       ELSE hooked' =
              [hooked EXCEPT
                 !.call = Called("start", "none", "void"),
                 !.stack = proceed(hooked.m,
                                   <<Frame("start", startSteps, stateName, "none",
                                           hooked.m)>>, 1)]
    /\ HookUnchanged

(* trigger (lines 146-169) called by the caller, or by the hook that is
   running; the frame of a rule found starts at transitionTo's first
   statement (the target is registered: addTransition saw to that). *)
HookedTrigger ==
  \E event \in {"GO", "PANIC"}, gv \in GuardOutcomes(hooked.m) :
    /\ hooked.stack = <<>> \/ InHook
    /\ Len(hooked.stack) < MaxDepth
    /\ Len(hooked.m.history) + Len(hooked.stack) < MaxHookHistory
    /\ IF hooked.m.currentState = null
       THEN hooked' = [hooked EXCEPT !.call = Called("trigger", "NotStarted", "void")]
       ELSE \E found \in {find(hooked.m, gv, hooked.m.currentState[1].name, event)} :
              \E stack \in {IF hooked.stack = <<>> THEN <<>>
                             ELSE [hooked.stack EXCEPT ![Len(hooked.stack)].triggered = TRUE]} :
                hooked' =
                  [hooked EXCEPT
                     !.call = IF hooked.stack = <<>>
                              THEN Called("trigger", "none", found.rule # 0)
                              ELSE @,
                     !.stack =
                       IF found.rule = 0 THEN stack
                       ELSE proceed(hooked.m,
                                    Append(stack,
                                           Frame("trigger", transitionToSteps,
                                                 hooked.m.transitions[found.rule].to,
                                                 hooked.m.transitions[found.rule].action,
                                                 hooked.m)), 1)]
    /\ HookUnchanged

(* update (lines 200-209) called by the caller. *)
HookedUpdate ==
  /\ hooked.stack = <<>>
  /\ IF hooked.m.currentState = null
     THEN hooked' = [hooked EXCEPT !.call = Called("update", "NotStarted", "void")]
     ELSE hooked' =
            [hooked EXCEPT
               !.call = Called("update", "none", "void"),
               !.stack = proceed(hooked.m,
                                 <<Frame("update", updateSteps,
                                         hooked.m.currentState[1].name, "none",
                                         hooked.m)>>, 1)]
  /\ HookUnchanged

(* `this.currentState = newState` (lines 136, 191). *)
Assign ==
  /\ hooked.stack # <<>>
  /\ Top.steps[Top.at] = "assign"
  /\ \E m \in {[hooked.m EXCEPT !.currentState = get(hooked.m, Top.to)]} :
       hooked' = [hooked EXCEPT !.m = m,
                                !.stack = proceed(m, hooked.stack, Top.at + 1)]
  /\ HookUnchanged

(* `this.history.push(stateName)` (lines 137, 192). *)
Push ==
  /\ hooked.stack # <<>>
  /\ Top.steps[Top.at] = "push"
  /\ \E m \in {[hooked.m EXCEPT !.history = Append(@, Top.to)]} :
       hooked' = [hooked EXCEPT !.m = m,
                                !.stack = proceed(m, hooked.stack, Top.at + 1)]
  /\ HookUnchanged

(* The hook or action that is running returns. *)
HookReturns ==
  /\ InHook
  /\ hooked' = [hooked EXCEPT !.stack = proceed(hooked.m, hooked.stack, Top.at + 1)]
  /\ HookUnchanged

(* The hook or action that is running raises: nothing catches, every call
   in progress ends, and the caller gets the fault. *)
HookRaises ==
  /\ InHook
  /\ hooked' = [hooked EXCEPT
                  !.stack = <<>>,
                  !.call.raised = "HookFault",
                  !.call.fault = [hook |-> Top.steps[Top.at], op |-> Top.op,
                                  to |-> Top.to, triggered |-> Top.triggered,
                                  began |-> Top.began, m |-> hooked.m]]
  /\ HookUnchanged

HooksNext ==
  \/ HookedStart
  \/ HookedTrigger
  \/ HookedUpdate
  \/ Assign
  \/ Push
  \/ HookReturns
  \/ HookRaises

HooksSpec == Init /\ [][HooksNext]_vars

(***************************************************************************)
(* Properties.  `result` holds the last call with the machine as it was    *)
(* before the call (result.pre) and the guard outcomes it ran under        *)
(* (result.gv); the variables hold the machine after it.                   *)
(***************************************************************************)
Before == result.pre

WasStarted == Before.currentState # null

(* The rule the documented algorithm selects: the first in registration
   order whose source is the current state or the wildcard, whose event is
   the given one and whose guard is absent or true; 0 when there is none. *)
Candidate(m, event, i) ==
  /\ m.transitions[i].from \in {m.currentState[1].name, "*"}
  /\ m.transitions[i].event = event

Passes(m, gv, event, i) ==
  /\ Candidate(m, event, i)
  /\ m.transitions[i].guard # "none" => gv[m.transitions[i].guard]

FirstRule(m, gv, event) ==
  LET ok == {i \in 1..Len(m.transitions) : Passes(m, gv, event, i)}
  IN IF ok = {} THEN 0 ELSE CHOOSE i \in ok : \A j \in ok : i <= j

(* C1: trigger(event) on a started machine selects the first rule in
   registration order whose source is the current state name or "*", whose
   event is the given event and whose guard is absent or true, and moves the
   machine to that rule's target; exact-source rules get no priority over
   wildcard rules.  The rule selected is a function of the table, the current
   state, the event and the guard outcomes alone, so repeating the trigger
   under the same four resolves to the same rule. *)
TriggerSelectsFirstMatch ==
  (result.op = "trigger" /\ WasStarted) =>
    LET i == FirstRule(Before, result.gv, result.arg) IN
    /\ result.rule = i
    /\ (i # 0) =>
         /\ result.raised = "none"
         /\ result.ret = TRUE
         /\ currentState # null
         /\ currentState[1].name = Before.transitions[i].to
         /\ currentState[1] = states[Before.transitions[i].to]

(* C1 happens: a wildcard rule registered first was selected although a
   rule of the current state, registered after it, passes as well. *)
WildcardBeforeExactSelected ==
  /\ result.op = "trigger"
  /\ WasStarted
  /\ result.rule = 1
  /\ Len(Before.transitions) = 2
  /\ Before.transitions[1].from = "*"
  /\ Before.transitions[2].from = Before.currentState[1].name
  /\ Passes(Before, result.gv, result.arg, 2)
  /\ Before.transitions[1].to # Before.transitions[2].to

(* C2: for every trigger that returned true the hooks invoked are, in this
   order, the departing state's onExit, the rule's action and the target's
   onEnter, each once and only if defined; also when the target is the
   departing state itself. *)
LifecycleOrder ==
  (result.op = "trigger" /\ result.raised = "none" /\ result.ret = TRUE) =>
    LET rule == Before.transitions[FirstRule(Before, result.gv, result.arg)]
        departing == Before.currentState[1]
        target == Before.states[rule.to]
        exit == IF "onExit" \in departing.hooks
                THEN <<[hook |-> "onExit", of |-> departing.name, arg |-> 0]>>
                ELSE <<>>
        action == IF rule.action # "none"
                  THEN <<[hook |-> "action", of |-> rule.action, arg |-> 0]>>
                  ELSE <<>>
        enter == IF "onEnter" \in target.hooks
                 THEN <<[hook |-> "onEnter", of |-> target.name, arg |-> 0]>>
                 ELSE <<>>
    IN result.calls = exit \o action \o enter

(* C2 happens: a self-transition ran onExit, the action and onEnter. *)
SelfTransitionRanAllThree ==
  /\ result.op = "trigger"
  /\ result.raised = "none"
  /\ result.ret = TRUE
  /\ currentState = Before.currentState
  /\ Len(result.calls) = 3

(* C3: a trigger on a started machine for which no rule matches (none for
   the event from the current state, or every candidate's guard false)
   returns false without raising, leaves current state, history and table as
   they were and invokes no hook and no action. *)
NoMatchIsNoOp ==
  (result.op = "trigger" /\ WasStarted
     /\ FirstRule(Before, result.gv, result.arg) = 0) =>
    /\ result.raised = "none"
    /\ result.ret = FALSE
    /\ currentState = Before.currentState
    /\ history = Before.history
    /\ transitions = Before.transitions
    /\ result.calls = <<>>

(* C3 happens: the only candidates for the event had guards, all false. *)
GuardRejectedTrigger ==
  /\ result.op = "trigger"
  /\ WasStarted
  /\ result.raised = "none"
  /\ result.ret = FALSE
  /\ \E i \in 1..Len(Before.transitions) : Candidate(Before, result.arg, i)

(* C4: on a machine that was never started, trigger, update and
   getCurrentState raise the not-started error whatever their argument,
   canTransition returns false without raising, and none of them changes the
   machine: it stays not started, with an empty history. *)
NotStartedCalls ==
  /\ (currentState = null) => (history = <<>>)
  /\ (~WasStarted /\ result.op \in {"trigger", "update", "getCurrentState"}) =>
       /\ result.raised = "NotStarted"
       /\ result.calls = <<>>
       /\ Machine = Before
  /\ (~WasStarted /\ result.op = "canTransition") =>
       /\ result.raised = "none"
       /\ result.ret = FALSE
       /\ result.calls = <<>>
       /\ Machine = Before

(* C4 happens: trigger was called before start for an event the table has
   an unguarded rule for. *)
TriggerBeforeStart ==
  /\ result.op = "trigger"
  /\ ~WasStarted
  /\ \E i \in 1..Len(transitions) :
       transitions[i].event = result.arg /\ transitions[i].guard = "none"

(* C5: addState with a name already registered raises the duplicate-state
   error and leaves the registry as it was (same names, same size, the
   object registered first is kept); with a fresh name it registers the
   state. *)
AddStateRejectsDuplicate ==
  (result.op = "addState") =>
    IF result.arg.name \in DOMAIN Before.states
    THEN /\ result.raised = "StateAlreadyExists"
         /\ DOMAIN states = DOMAIN Before.states
         /\ Cardinality(DOMAIN states) = Cardinality(DOMAIN Before.states)
         /\ \A n \in DOMAIN states : states[n] = Before.states[n]
    ELSE /\ result.raised = "none"
         /\ DOMAIN states = DOMAIN Before.states \cup {result.arg.name}
         /\ states[result.arg.name] = result.arg
         /\ \A n \in DOMAIN Before.states : states[n] = Before.states[n]

(* C5 happens: a different object with a registered name was refused. *)
DuplicateObjectRefused ==
  /\ result.op = "addState"
  /\ result.raised # "none"
  /\ result.arg.name \in DOMAIN Before.states
  /\ result.arg # Before.states[result.arg.name]

(* C6: addTransition raises the unknown-state error when the rule's target
   is not registered or when its source is neither "*" nor registered, and
   the table is then unchanged; so every rule of the table refers to a
   registered target and to a registered source or the wildcard. *)
AddTransitionValidates ==
  /\ \A i \in 1..Len(transitions) :
       /\ transitions[i].to \in DOMAIN states
       /\ transitions[i].from = "*" \/ transitions[i].from \in DOMAIN states
  /\ (result.op = "addTransition"
        /\ (\/ result.arg.to \notin DOMAIN Before.states
            \/ (result.arg.from # "*" /\ result.arg.from \notin DOMAIN Before.states))) =>
       /\ result.raised \in {"SourceStateDoesNotExist", "TargetStateDoesNotExist"}
       /\ transitions = Before.transitions

(* C6 happens: a wildcard rule with an unregistered target was refused by a
   machine whose table already holds a rule. *)
WildcardToUnknownRefused ==
  /\ result.op = "addTransition"
  /\ result.arg.from = "*"
  /\ result.arg.to \notin DOMAIN states
  /\ result.raised = "TargetStateDoesNotExist"
  /\ transitions # <<>>

(* C7: start(name) raises when name is not registered and when the machine
   already has a current state; such a start changes neither current state
   nor history and invokes no onEnter.  Any other start sets the current
   state to name, makes the history exactly <<name>> and invokes that state's
   onEnter once (if it defines one). *)
StartContract ==
  (result.op = "start") =>
    IF result.arg \notin DOMAIN Before.states \/ WasStarted
    THEN /\ result.raised \in {"StartStateNotFound", "AlreadyStarted"}
         /\ currentState = Before.currentState
         /\ history = Before.history
         /\ result.calls = <<>>
    ELSE /\ result.raised = "none"
         /\ currentState = <<Before.states[result.arg]>>
         /\ currentState[1].name = result.arg
         /\ history = <<result.arg>>
         /\ result.calls =
              IF "onEnter" \in Before.states[result.arg].hooks
              THEN <<[hook |-> "onEnter", of |-> result.arg, arg |-> 0]>>
              ELSE <<>>

(* C7 happens: a second start, naming another registered state, was refused
   after the machine had moved on from its initial state. *)
SecondStartRefused ==
  /\ result.op = "start"
  /\ result.raised = "AlreadyStarted"
  /\ result.arg \in DOMAIN states
  /\ result.arg # currentState[1].name
  /\ Len(history) > 1

(* C8: the machine becomes started only through a start that returns, and
   once started no call makes it not started again: getCurrentState never
   raises again. *)
StartedIsTerminal ==
  [][/\ (currentState # null) =>
          (currentState' # null /\ getCurrentState(Machine').raised = "none")
     /\ (currentState = null /\ currentState' # null) =>
          (result'.op = "start" /\ result'.raised = "none")]_vars

(* C8 happens: a started machine that has made a transition accepted a new
   state and is still started. *)
StartedMachineExtended ==
  /\ result.op = "addState"
  /\ result.raised = "none"
  /\ WasStarted
  /\ currentState # null
  /\ Len(history) > 1

(* C9: on a started machine getHistory() is the initial state name followed
   by the target of every trigger that returned true, oldest first; triggers
   that returned false add nothing, so its length is 1 plus the number of
   triggers that returned true. *)
HistoryIsTrace ==
  (currentState # null) =>
    /\ getHistory(Machine).ret.items = expected
    /\ Len(getHistory(Machine).ret.items) = 1 + successes

(* C9 happens: after two triggers that returned true the machine is back in
   its initial state, and a third trigger just returned false. *)
CycleThenFailedTrigger ==
  /\ result.op = "trigger"
  /\ result.raised = "none"
  /\ result.ret = FALSE
  /\ successes = 2
  /\ Len(history) = 3
  /\ history[1] = history[3]
  /\ history[1] # history[2]

(* C10: getHistory() returns an independent copy: appending to, removing
   from or overwriting the returned array changes neither what getHistory()
   returns afterwards nor the machine's current state. *)
HistoryCopyIsIndependent ==
  [][(mutations' = mutations + 1) =>
       /\ getHistory(Machine').ret.items = getHistory(Machine).ret.items
       /\ currentState' = currentState]_vars

(* C10 happens: the caller changed the array it was given by a started
   machine, and the array now differs from the machine's history. *)
ReturnedHistoryMutated ==
  /\ result.op = "getHistory"
  /\ mutations = 1
  /\ currentState # null
  /\ result.ret.items # history
  /\ history = expected

(* C11: on a started machine, for every event and every assignment of guard
   outcomes, canTransition(event) returns true exactly when trigger(event)
   issued in the same state under the same outcomes would return true; and
   canTransition changes neither the current state nor the history (nor the
   registry or the table) and invokes no onExit, action or onEnter. *)
CanTransitionAgreesWithTrigger ==
  (result.op = "canTransition" /\ WasStarted) =>
    LET would == trigger(Before, result.gv, result.arg) IN
    /\ result.raised = "none"
    /\ would.raised = "none"
    /\ result.ret = would.ret
    /\ result.ret = (FirstRule(Before, result.gv, result.arg) # 0)
    /\ Machine = Before
    /\ result.calls = <<>>

(* C11 happens: after a transition, canTransition returned false for an
   event the current state has a rule for, because the rule's guard was
   false; trigger would have returned false too. *)
CanTransitionGuardRejected ==
  /\ result.op = "canTransition"
  /\ WasStarted
  /\ result.ret = FALSE
  /\ Len(history) > 1
  /\ \E i \in 1..Len(Before.transitions) :
       /\ Candidate(Before, result.arg, i)
       /\ Before.transitions[i].from # "*"

(* C12: when the table holds an unguarded wildcard rule ("*", T, E) and no
   rule for E registered before it, trigger(E) on a started machine returns
   true and leaves the machine in T, whatever the current state was. *)
UnguardedWildcardAlwaysFires ==
  (result.op = "trigger" /\ WasStarted) =>
    \A i \in 1..Len(Before.transitions) :
      (/\ Before.transitions[i].from = "*"
       /\ Before.transitions[i].guard = "none"
       /\ Before.transitions[i].event = result.arg
       /\ \A j \in 1..(i - 1) : Before.transitions[j].event # result.arg) =>
        /\ result.raised = "none"
        /\ result.ret = TRUE
        /\ currentState # null
        /\ currentState[1].name = Before.transitions[i].to

(* C12 happens: the unguarded wildcard rule, registered second after a rule
   for another event, took the machine from a state other than its target
   to its target, the machine having made a transition before. *)
WildcardTookOtherState ==
  /\ result.op = "trigger"
  /\ WasStarted
  /\ Len(Before.history) > 1
  /\ Len(Before.transitions) = 2
  /\ Before.transitions[2].from = "*"
  /\ Before.transitions[2].guard = "none"
  /\ Before.transitions[2].event = result.arg
  /\ Before.transitions[1].event # result.arg
  /\ Before.currentState[1].name # Before.transitions[2].to
  /\ currentState[1].name = Before.transitions[2].to

(* C19 (as the code behaves): when, for the same event, a rule of the
   current state whose guard returns false is registered before a wildcard
   rule whose guard returns true, trigger(event) returns true; when no rule
   registered before the wildcard passes, the guard of the rejected rule and
   then the wildcard's guard are called, the wildcard rule is the one
   selected and the machine ends in its target, with that target appended to
   the history. *)
RejectedExactBeforeWildcard(i, j) ==
  /\ i < j
  /\ Before.transitions[i].from = Before.currentState[1].name
  /\ Before.transitions[i].event = result.arg
  /\ Before.transitions[i].guard # "none"
  /\ ~result.gv[Before.transitions[i].guard]
  /\ Before.transitions[j].from = "*"
  /\ Before.transitions[j].event = result.arg
  /\ Before.transitions[j].guard # "none"
  /\ result.gv[Before.transitions[j].guard]

GuardCalled(i) == \E n \in 1..Len(result.evals) : result.evals[n] = i

RejectedExactFallsThroughToWildcard ==
  (result.op = "trigger" /\ WasStarted) =>
    \A i, j \in 1..Len(Before.transitions) :
      RejectedExactBeforeWildcard(i, j) =>
        /\ result.raised = "none"
        /\ result.ret = TRUE
        /\ (\A k \in 1..(j - 1) : ~Passes(Before, result.gv, result.arg, k)) =>
             /\ GuardCalled(i)
             /\ GuardCalled(j)
             /\ result.rule = j
             /\ currentState[1].name = Before.transitions[j].to
             /\ history = Append(Before.history, Before.transitions[j].to)

(* C19 happens: the rule of the current state, registered first, had its
   guard false and the wildcard rule registered after it, for the same
   event, had its guard true. *)
RejectedExactThenWildcardTriggered ==
  /\ result.op = "trigger"
  /\ WasStarted
  /\ Len(Before.transitions) >= 2
  /\ RejectedExactBeforeWildcard(1, 2)

(* C19 as stated: in that situation trigger never tries the wildcard rule
   and returns false, leaving the state unchanged. *)
WildcardNeverTriedAfterRejectedExact ==
  (result.op = "trigger" /\ WasStarted) =>
    \A i, j \in 1..Len(Before.transitions) :
      RejectedExactBeforeWildcard(i, j) =>
        /\ ~GuardCalled(j)
        /\ result.raised = "none"
        /\ result.ret = FALSE
        /\ currentState = Before.currentState
        /\ history = Before.history

(***************************************************************************)
(* Properties of the lights.  controllerCall and intersectionCall hold the *)
(* last call with the controller as it was before it (pre; of the          *)
(* TrafficLightController what its caller can see, and whether the call    *)
(* left all of it the same); the log of intersectionCall holds the         *)
(* triggers the call made on the two machines.                             *)
(***************************************************************************)
Light == controllerGetCurrentState(controller).ret

LightBefore == controllerGetCurrentState(controllerCall.pre).ret

Triggers == {intersectionCall.log[n] : n \in 1..Len(intersectionCall.log)}

(* C13: once start, an update tick, a timeout's callback, emergencyVehicle,
   pedestrianButtonPressed or stop has returned, the north-south and the
   east-west machine are not both in GREEN, and getStatus().isSafe is
   true. *)
NeverBothGreen ==
  /\ ~(getNorthSouthState(intersection) = "GREEN"
         /\ getEastWestState(intersection) = "GREEN")
  /\ getStatus(intersection).ret.isSafe

(* C13 happens: emergencyVehicle forced its axis green while the other axis
   was green, and has returned. *)
ForcedGreenBesideGreen ==
  /\ intersectionCall.op = "emergencyVehicle"
  /\ Len(intersectionCall.log) = 3
  /\ intersectionCall.log[2].event = "FORCE_GREEN"
  /\ intersectionCall.log[2].ret = TRUE
  /\ intersectionCall.log[2].to = "GREEN"
  /\ intersectionCall.log[2].peer = "GREEN"

(* C14: on either machine of the intersection a TIMER_EXPIRED trigger made
   while the machine is in RED returns true and moves it to GREEN exactly
   when the other machine is in RED at that moment; when the other machine
   is in GREEN or YELLOW it returns false and the machine stays in RED. *)
GreenOnlyBesideRed ==
  \A e \in Triggers :
    (e.event = "TIMER_EXPIRED" /\ e.from = "RED") =>
      /\ e.raised = "none"
      /\ e.ret = (e.peer = "RED")
      /\ e.to = (IF e.peer = "RED" THEN "GREEN" ELSE "RED")
      /\ (e.peer \in {"GREEN", "YELLOW"}) => (e.ret = FALSE /\ e.grown = 0)

(* C14 happens: a timeout's callback triggered TIMER_EXPIRED on an axis in
   RED while the other axis was in GREEN. *)
CallbackRefusedBesideGreen ==
  \E e \in Triggers :
    /\ e.via = "timeout"
    /\ e.event = "TIMER_EXPIRED"
    /\ e.from = "RED"
    /\ e.peer = "GREEN"

(* C15: on a running TrafficLightController emergencyOverride() returns
   true and leaves the light in RED, whichever of RED, GREEN and YELLOW it
   was in; on either machine of the intersection an EMERGENCY_OVERRIDE
   trigger returns true and leaves the machine in RED, whatever its state
   and the other machine's state were. *)
OverrideForcesRed ==
  /\ (controllerCall.op = "emergencyOverride" /\ controllerCall.pre.isRunning) =>
       /\ LightBefore \in LightNames
       /\ controllerCall.raised = "none"
       /\ controllerCall.ret = TRUE
       /\ Light = "RED"
  /\ \A e \in Triggers :
       (e.event = "EMERGENCY_OVERRIDE") =>
         /\ e.raised = "none"
         /\ e.ret = TRUE
         /\ e.to = "RED"

(* C15 happens: an intersection machine in GREEN was overridden to RED while
   the other machine was in GREEN too. *)
OverrideFromGreenBesideGreen ==
  \E e \in Triggers :
    /\ e.event = "EMERGENCY_OVERRIDE"
    /\ e.from = "GREEN"
    /\ e.peer = "GREEN"
    /\ e.to = "RED"

(* C16: an update of a running TrafficLightController leaves the current
   state exactly when the time ticked since the state was last entered
   (counted from 0 at every entry, also an entry by a FORCE or EMERGENCY
   event) has reached the state's duration, 30000 ms for RED, 25000 ms for
   GREEN and 5000 ms for YELLOW, and then moves RED to GREEN, GREEN to YELLOW
   and YELLOW to RED.  So 30 updates of 1000 ms from start reach GREEN, 60
   complete RED, GREEN, YELLOW, RED, and 100 updates of 10 ms leave the light
   in RED. *)
Following(name) ==
  IF name = "RED" THEN "GREEN" ELSE IF name = "GREEN" THEN "YELLOW" ELSE "RED"

TimedCycle ==
  /\ (controller.isRunning) => (controller.timer[Light] = run.sinceEntry)
  /\ (controllerCall.op = "update" /\ controllerCall.pre.isRunning) =>
       /\ controllerCall.raised = "none"
       /\ IF run.reached >= duration[LightBefore]
          THEN /\ Light = Following(LightBefore)
               /\ controller.fsm.history =
                    Append(controllerCall.pre.fsm.history, Following(LightBefore))
          ELSE /\ Light = LightBefore
               /\ controller.fsm.history = controllerCall.pre.fsm.history
  /\ (run.cadence = 1000 /\ ~run.manual /\ run.ticks = 30) => (Light = "GREEN")
  /\ (run.cadence = 1000 /\ ~run.manual /\ run.ticks = 60) =>
       (Light = "RED" /\ controller.fsm.history = <<"RED", "GREEN", "YELLOW", "RED">>)
  /\ (run.cadence = 10 /\ ~run.manual /\ run.ticks = 100) =>
       (Light = "RED" /\ controller.fsm.history = <<"RED">>)

(* C16 happens: the sixtieth update of 1000 ms brought the light back to
   RED. *)
SixtyUpdatesCompleteCycle ==
  /\ controllerCall.op = "update"
  /\ run.cadence = 1000
  /\ run.ticks = 60
  /\ ~run.manual
  /\ LightBefore = "YELLOW"
  /\ Light = "RED"

(* C17: while a TrafficLightController is not running, before start() or
   after stop(), emergencyOverride(), forceGreen(), forceYellow() and
   forceRed() return false, update(deltaTime) returns without raising, and
   none of them changes the light state or the history; before the first
   start getCurrentState() returns "NOT_STARTED" and isOperational() is
   false. *)
NotRunningIsInert ==
  /\ (controllerCall.op \in ManualControls /\ ~controllerCall.pre.isRunning) =>
       /\ controllerCall.raised = "none"
       /\ controllerCall.ret = FALSE
       /\ controllerCall.same
       /\ Seen(controller) = controllerCall.pre
  /\ (controllerCall.op = "update" /\ ~controllerCall.pre.isRunning) =>
       /\ controllerCall.raised = "none"
       /\ controllerCall.same
       /\ Seen(controller) = controllerCall.pre
  /\ (controller.fsm.history = <<>>) =>
       /\ Light = "NOT_STARTED"
       /\ isOperational(controller).ret = FALSE

(* C17 happens: forceGreen was called on a controller stopped in YELLOW. *)
ForceGreenAfterStop ==
  /\ controllerCall.op = "forceGreen"
  /\ ~controllerCall.pre.isRunning
  /\ LightBefore = "YELLOW"

(* C18: a trigger that found a rule has, when it returns, invoked the
   departing state's onExit, the rule's action and the target's onEnter, in
   this order, moved the machine to the target and appended the target to
   the history; the other machine is then as it was when the trigger began,
   no update, trigger or callback on it having run in between; and the
   trigger a YELLOW -> RED action schedules on the other machine is only
   queued by it: it runs as a step of its own, the callback of a timeout. *)
RuleOf(pre, e) == machineOf(pre, e.axis).transitions[e.rule]

TriggerRunsToCompletion ==
  \A e \in Triggers :
    /\ (e.rule # 0) =>
         LET rule == RuleOf(intersectionCall.pre, e) IN
         /\ e.raised = "none"
         /\ e.ret = TRUE
         /\ e.calls = <<Call("onExit", e.from, 0)>>
                        \o (IF rule.action = "none" THEN <<>>
                            ELSE <<Call("action", rule.action, 0)>>)
                        \o <<Call("onEnter", rule.to, 0)>>
         /\ e.to = rule.to
         /\ e.grown = 1
         /\ e.queued = (IF rule.action \in {"nsYellowToRed", "ewYellowToRed"}
                        THEN <<peer(e.axis)>> ELSE <<>>)
    /\ e.peerSame
    /\ (e.via = "timeout") =>
         /\ intersectionCall.op = "timeout"
         /\ intersectionCall.log = <<e>>
         /\ Head(intersectionCall.pre.timeouts) = e.axis

(* C18 happens: in one update the north-south machine went from YELLOW to
   RED, its action queueing the trigger of the east-west machine, and the
   east-west machine's own onUpdate then took it to GREEN; the queued
   trigger is still pending. *)
ScheduledTriggerStillPending ==
  /\ intersectionCall.op = "update"
  /\ Len(intersectionCall.log) = 2
  /\ intersectionCall.log[1].axis = "NS"
  /\ intersectionCall.log[1].queued = <<"EW">>
  /\ intersectionCall.log[2].axis = "EW"
  /\ intersectionCall.log[2].via = "onUpdate"
  /\ intersectionCall.log[2].to = "GREEN"
  /\ intersection.timeouts # <<>>

(* C20: during a trigger that finds a rule, getCurrentState() called from
   inside the departing state's onExit or from inside the rule's action
   returns the source state, and getHistory() does not yet hold the new
   entry; called from inside the target's onEnter, getCurrentState() returns
   the target and the history ends with it. *)
HooksSeeSourceThenTarget ==
  (result.op = "trigger" /\ result.raised = "none" /\ result.ret = TRUE) =>
    /\ Len(seen) = Len(result.calls)
    /\ \A n \in 1..Len(seen) :
         /\ seen[n].hook = result.calls[n].hook
         /\ (seen[n].hook \in {"onExit", "action"}) =>
              /\ seen[n].state = Before.currentState[1].name
              /\ seen[n].history = Before.history
         /\ (seen[n].hook = "onEnter") =>
              /\ seen[n].state = Before.transitions[result.rule].to
              /\ seen[n].state = currentState[1].name
              /\ seen[n].history = Append(Before.history, seen[n].state)
              /\ seen[n].history = history

(* C20 happens: a transition from one state to another ran onExit, an
   action and onEnter. *)
ThreeHooksSawTransition ==
  /\ result.op = "trigger"
  /\ result.raised = "none"
  /\ result.ret = TRUE
  /\ Len(seen) = 3
  /\ seen[2].hook = "action"
  /\ seen[1].state # seen[3].state

(***************************************************************************)
(* Further properties of the intersection, over the same log of triggers.  *)
(***************************************************************************)
(* C21: a light state's onUpdate triggers TIMER_EXPIRED once per crossing of
   its duration: every trigger an update of the intersection makes from
   onUpdate is made in the tick in which the state's timer reaches the
   duration, the timer having been below it before the tick; so a trigger
   that was a no-op (an axis in RED whose guard is false) is not made again
   on the next tick. *)
TimerTriggersOncePerCrossing ==
  (intersectionCall.op = "update") =>
    \A e \in Triggers :
      (e.via = "onUpdate") =>
        intersectionCall.pre.timer[e.axis][e.from] < duration[e.from]

(* C23: emergencyVehicle(d) on a running intersection returns with the
   machine of d in GREEN and the other machine in RED, the first call
   included. *)
EmergencyVehicleGivesGreen ==
  (intersectionCall.op = "emergencyVehicle" /\ intersectionCall.pre.isRunning) =>
    /\ intersectionCall.raised = "none"
    /\ stateOf(machineOf(intersection, intersectionCall.arg)) = "GREEN"
    /\ stateOf(machineOf(intersection, peer(intersectionCall.arg))) = "RED"

(* C24: the callback of a timeout set by a YELLOW -> RED action only ever
   takes the other axis from RED to GREEN: the trigger it makes never moves
   an axis that is in GREEN to YELLOW nor one that is in YELLOW to RED. *)
CallbackOnlyTurnsRedGreen ==
  \A e \in Triggers :
    (e.via = "timeout" /\ e.raised = "none" /\ e.ret = TRUE) =>
      (e.from = "RED" /\ e.to = "GREEN")

(* C25: each machine's table holds at most one FORCE_GREEN rule, however
   many times emergencyVehicle has been called. *)
ForceGreenRules(m) ==
  {i \in 1..Len(m.transitions) : m.transitions[i].event = "FORCE_GREEN"}

AtMostOneForceGreenRule ==
  \A d \in Axes : Cardinality(ForceGreenRules(machineOf(intersection, d))) <= 1

(* C30: after each of the triggers emergencyVehicle makes, the two machines
   are not both in GREEN (the other machine is, after a trigger, as it was
   when the trigger was made). *)
EmergencyStepsNeverBothGreen ==
  (intersectionCall.op = "emergencyVehicle") =>
    \A e \in Triggers : ~(e.to = "GREEN" /\ e.peer = "GREEN")

(* C22: a guard whose other machine has not been started returns true
   instead of raising; so, on a started machine, a trigger never raises
   whatever the other machine is, and TIMER_EXPIRED from RED beside a machine
   that is not started returns true and ends in GREEN. *)
UnstartedPeerAllows ==
  /\ (getEastWestState(intersection) = "NOT_STARTED") => canNSGoGreen(intersection)
  /\ (getNorthSouthState(intersection) = "NOT_STARTED") => canEWGoGreen(intersection)
  /\ \A e \in Triggers :
       (e.from # "NOT_STARTED") =>
         /\ e.raised = "none"
         /\ (e.event = "TIMER_EXPIRED" /\ e.from = "RED" /\ e.peer = "NOT_STARTED") =>
              (e.ret = TRUE /\ e.to = "GREEN" /\ e.grown = 1)

(* C22 happens: TIMER_EXPIRED was triggered on a machine in RED whose other
   machine had not been started. *)
RedTriggeredBesideUnstarted ==
  \E e \in Triggers :
    /\ e.event = "TIMER_EXPIRED"
    /\ e.from = "RED"
    /\ e.peer = "NOT_STARTED"

(* C26: while the intersection runs, update being called again and again
   and every pending timeout firing, each axis is in GREEN again and again:
   from every state of the running intersection, also both axes in RED after
   an emergency, the north-south machine reaches GREEN and the east-west
   machine reaches GREEN. *)
EachAxisGreenAgain ==
  /\ intersection.isRunning ~> (getNorthSouthState(intersection) = "GREEN")
  /\ intersection.isRunning ~> (getEastWestState(intersection) = "GREEN")

(* C26 happens: in a run of unbounded length, after an emergency, an update
   took the east-west machine from RED to GREEN. *)
WaitingAxisWentGreen ==
  /\ intersectionCall.op = "update"
  /\ Len(intersection.eastWest.transitions) > Len(ewTransitions)
  /\ intersection.eastWest.history = <<"GREEN">>
  /\ \E e \in Triggers :
       /\ e.axis = "EW"
       /\ e.via = "onUpdate"
       /\ e.from = "RED"
       /\ e.peer = "RED"
       /\ e.to = "GREEN"

(* C27: for every light state S and every whole number e of seconds,
   computeNextState(S, e) reports transitioned exactly when a
   TrafficLightController that entered S and has since been updated for e
   seconds has left S, which is when e has reached 30 for RED, 25 for GREEN
   and 5 for YELLOW; nextState is then the state the controller went to from
   S (GREEN, YELLOW, RED respectively), and otherwise S, where the
   controller still is. *)
EnteredAt == Len(lightIn(decision.currentState).fsm.history)

EndpointAgreesWithController ==
  (decision.currentState \in LightNames) =>
    /\ decision.response.transitioned =
         (Len(decision.light.fsm.history) > EnteredAt)
    /\ decision.response.transitioned =
         (decision.secondsElapsed * 1000 >= duration[decision.currentState])
    /\ IF decision.response.transitioned
       THEN /\ decision.response.nextState = decision.light.fsm.history[EnteredAt + 1]
            /\ decision.response.nextState = Following(decision.currentState)
       ELSE /\ decision.response.nextState = decision.currentState
            /\ controllerGetCurrentState(decision.light).ret = decision.currentState

(* C27 happens: asked about GREEN after 25 seconds the endpoint answers
   YELLOW, and the controller's twenty-fifth update has just taken it to
   YELLOW. *)
AskedAtGreenThreshold ==
  /\ decision.currentState = "GREEN"
  /\ decision.secondsElapsed = 25
  /\ decision.response.nextState = "YELLOW"
  /\ decision.response.transitioned
  /\ controllerGetCurrentState(decision.light).ret = "YELLOW"
  /\ decision.light.timer["YELLOW"] = 0

(* C28: after coins covering the price of an item in stock have been
   inserted and that item is then selected, the machine dispenses with no
   further call but updates: the selection leaves it in DISPENSING with the
   item's quantity one less, and once it has been updated for 3000 ms it is
   back in IDLE, the quantity still one less. *)
VendingState == vending.fsm.currentState[1].name

PaidSelectionDispenses ==
  (vendingCall.paidFor.item # "none") =>
    /\ vending.inventory[vendingCall.paidFor.item] =
         vendingCall.paidFor.quantity - 1
    /\ (vendingCall.paidFor.updated = 0) => (VendingState = "DISPENSING")
    /\ (vendingCall.paidFor.updated >= DispenseDuration) => (VendingState = "IDLE")

(* C28 does not happen: 1.50 was inserted, A1 was then selected, and after
   3000 ms of updates the machine still waits in PAYMENT, all ten A1 in
   stock and the money kept. *)
PaidSelectionWaitsInPayment ==
  /\ vendingCall.paidFor = [item |-> "A1", quantity |-> 10,
                            updated |-> DispenseDuration]
  /\ VendingState = "PAYMENT"
  /\ vending.inventory["A1"] = 10
  /\ vending.insertedAmount = 150
  /\ vending.paymentTimer = DispenseDuration

(* C29: cancel(), in whatever state, and an update that takes the time
   spent in PAYMENT to 30000 ms, return without an error, leave the machine
   in IDLE with nothing inserted and no item selected, and leave every
   item's quantity as it was. *)
PaymentTimedOut ==
  /\ vendingCall.op = "update"
  /\ vendingCall.pre.fsm.currentState[1].name = "PAYMENT"
  /\ vendingCall.pre.paymentTimer + vendingCall.arg >= PaymentTimeout

CancelReturnsToIdle ==
  (vendingCall.op = "cancel" \/ PaymentTimedOut) =>
    /\ vendingCall.raised = "none"
    /\ VendingState = "IDLE"
    /\ vending.fsm.history = Append(vendingCall.pre.fsm.history, "IDLE")
    /\ vending.insertedAmount = 0
    /\ vending.selectedItem = "none"
    /\ vending.inventory = vendingCall.pre.inventory

(* C29 happens: with 1.00 inserted and A1 selected the payment timed out. *)
PaymentTimeoutRefunded ==
  /\ PaymentTimedOut
  /\ vendingCall.pre.insertedAmount = 100
  /\ vendingCall.pre.selectedItem = "A1"
  /\ VendingState = "IDLE"
  /\ vending.insertedAmount = 0

(* C39: start() on a TrafficLightController whose machine has been started
   raises, whether the controller is running (start after start) or was
   stopped (start after start and stop), and leaves the light state, the
   history and isOperational() as they were; so a controller that was
   started and stopped never runs again: no call makes isOperational()
   true. *)
RestartRaises ==
  (controllerCall.op = "start" /\ controllerCall.pre.fsm.currentState # null) =>
    /\ controllerCall.raised =
         (IF controllerCall.pre.isRunning
          THEN "ControllerAlreadyRunning" ELSE "AlreadyStarted")
    /\ controllerCall.same
    /\ Seen(controller) = controllerCall.pre
    /\ isOperational(controller).ret = controllerCall.pre.isRunning

StoppedStaysStopped ==
  (controller.fsm.currentState # null /\ ~controller.isRunning) =>
    /\ ~controller'.isRunning
    /\ controller'.fsm = controller.fsm

ControllerNeverRestarts == []RestartRaises /\ [][StoppedStaysStopped]_vars

(* C39 happens: start() was called on a controller stopped in GREEN and
   raised; the controller is still stopped in GREEN. *)
StartAfterStopRaised ==
  /\ controllerCall.op = "start"
  /\ controllerCall.raised = "AlreadyStarted"
  /\ ~controller.isRunning
  /\ Light = "GREEN"
  /\ controller.fsm.history = <<"RED", "GREEN">>

(* C40: one update(deltaTime) of a running TrafficLightController changes
   the state at most once whatever deltaTime is, and the state it enters
   starts counting from 0: the time beyond the duration is dropped.  So an
   update of 30000 ms or more from a fresh RED ends in GREEN with GREEN's
   timer at 0. *)
OneUpdateOneStep ==
  (controllerCall.op = "update" /\ controllerCall.pre.isRunning) =>
    /\ controllerCall.raised = "none"
    /\ \/ controller.fsm.history = controllerCall.pre.fsm.history
       \/ /\ controller.fsm.history =
               Append(controllerCall.pre.fsm.history, Following(LightBefore))
          /\ controller.timer[Light] = 0
    /\ (LightBefore = "RED" /\ controllerCall.arg >= RedDuration) =>
         /\ Light = "GREEN"
         /\ controller.timer["GREEN"] = 0

(* C40 happens: the first update of a fresh RED was one of a whole cycle's
   length, 60000 ms, and the light is GREEN, counting from 0. *)
WholeCycleTickFromFreshRed ==
  /\ controllerCall.op = "update"
  /\ controllerCall.arg = WholeCycle
  /\ controllerCall.pre.fsm.history = <<"RED">>
  /\ controllerCall.pre.isRunning
  /\ controller.fsm.history = <<"RED", "GREEN">>
  /\ controller.timer["GREEN"] = 0
  /\ controller.timer["RED"] = WholeCycle

(* C31: once an IntersectionController has been stopped, no call and no
   callback changes either machine's state or history again: update,
   emergencyVehicle and pedestrianButtonPressed return without triggering
   anything, and a callback that was scheduled before stop() and runs after
   it triggers nothing; the controller is never running again. *)
StoppedCallIsInert ==
  (/\ intersectionCall.op \in {"update", "emergencyVehicle",
                               "pedestrianButtonPressed", "timeout"}
   /\ intersectionCall.pre.northSouth.currentState # null
   /\ ~intersectionCall.pre.isRunning) =>
    /\ intersectionCall.raised = "none"
    /\ intersectionCall.log = <<>>
    /\ intersection.northSouth = intersectionCall.pre.northSouth
    /\ intersection.eastWest = intersectionCall.pre.eastWest
    /\ intersection.pedestrianWaiting = intersectionCall.pre.pedestrianWaiting

StoppedMachinesStay ==
  (intersection.northSouth.currentState # null /\ ~intersection.isRunning) =>
    /\ intersection'.northSouth = intersection.northSouth
    /\ intersection'.eastWest = intersection.eastWest
    /\ ~intersection'.isRunning

StoppedIntersectionIsFrozen == []StoppedCallIsInert /\ [][StoppedMachinesStay]_vars

(* C31 happens: north-south turned RED and scheduled the east-west trigger
   in the update in which east-west turned GREEN, the controller was
   stopped, and the callback then ran and left east-west in GREEN, where a
   running controller's callback takes it on to YELLOW. *)
CallbackAfterStopDidNothing ==
  /\ intersectionCall.op = "timeout"
  /\ intersectionCall.arg = "EW"
  /\ ~intersectionCall.pre.isRunning
  /\ intersectionCall.pre.timeouts = <<"EW">>
  /\ getNorthSouthState(intersection) = "RED"
  /\ getEastWestState(intersection) = "GREEN"
  /\ intersection.eastWest.history = <<"RED", "GREEN">>
  /\ intersection.timeouts = <<>>

(* C37: trigger(event) and canTransition(event) on a started machine call
   guards only of rules whose source is the current state or "*" and whose
   event is the given one, in registration order and each at most once, and
   call no guard of a rule registered after the first rule that passes; a
   call for which no rule is a candidate calls no guard. *)
GuardsCalledInOrderUntilMatch ==
  (result.op \in {"trigger", "canTransition"} /\ WasStarted) =>
    LET first == FirstRule(Before, result.gv, result.arg) IN
    /\ \A n \in 1..Len(result.evals) :
         /\ result.evals[n] \in 1..Len(Before.transitions)
         /\ Candidate(Before, result.arg, result.evals[n])
         /\ Before.transitions[result.evals[n]].guard # "none"
         /\ (first # 0) => (result.evals[n] <= first)
    /\ \A n, k \in 1..Len(result.evals) :
         (n < k) => (result.evals[n] < result.evals[k])
    /\ (\A i \in 1..Len(Before.transitions) : ~Candidate(Before, result.arg, i)) =>
         (result.evals = <<>>)

(* C37 happens: canTransition called the guard of the first rule, which
   was false, then the guard of the second, which was true, and answered
   true. *)
CanTransitionCalledTwoGuards ==
  /\ result.op = "canTransition"
  /\ WasStarted
  /\ result.evals = <<1, 2>>
  /\ result.ret = TRUE
  /\ ~result.gv[Before.transitions[1].guard]
  /\ result.gv[Before.transitions[2].guard]

(* C32: what the decision endpoint answers as nextState and transitioned
   depends on currentState and secondsElapsed alone: a request that differs
   from the one answered only in waitingVehicles and competingTraffic, each
   absent or any count, gets the same nextState and the same transitioned. *)
CountsDoNotDecide ==
  (decision.currentState \in LightNames) =>
    \A waitingVehicles, competingTraffic \in OptionalCount :
      LET other == computeNextState(decision.currentState, decision.secondsElapsed,
                                    waitingVehicles, competingTraffic)
      IN /\ other.nextState = decision.response.nextState
         /\ other.transitioned = decision.response.transitioned

(* C32 happens: RED was asked about after 30 seconds with 3 vehicles waiting
   and none competing; the answer carries the priority logic's note, which
   the same request without the counts does not get, and is GREEN as it is
   without them. *)
AnsweredWithPriorityNote ==
  /\ decision.currentState = "RED"
  /\ decision.secondsElapsed = 30
  /\ decision.waitingVehicles = <<3>>
  /\ decision.competingTraffic = <<0>>
  /\ decision.response.nextState = "GREEN"
  /\ decision.response.reason = <<"Timer expired", "Priority", "No competing traffic">>
  /\ computeNextState("RED", 30, undefined, undefined).reason = <<"Timer expired">>

(* C36: whenever a caller or a hook, guard or action can look at a started
   machine (no call is in progress, or a hook or action is running; guards
   run when trigger is called, from either), its current state is the
   registered state object of that name, every history entry is a
   registered name and the last history entry is the current state's name;
   also while hooks call trigger on their own machine. *)
Observable == hooked.stack = <<>> \/ InHook

HistoryMatchesState ==
  (Observable /\ hooked.m.currentState # null) =>
    /\ has(hooked.m, hooked.m.currentState[1].name)
    /\ hooked.m.states[hooked.m.currentState[1].name] = hooked.m.currentState[1]
    /\ \A n \in 1..Len(hooked.m.history) : has(hooked.m, hooked.m.history[n])
    /\ hooked.m.history # <<>>
    /\ hooked.m.history[Len(hooked.m.history)] = hooked.m.currentState[1].name

(* C36 happens: onEnter of B, entered by a trigger that A's onUpdate made,
   is running and sees B as the current state and as the last history
   entry. *)
OnEnterInsideOnUpdate ==
  /\ Len(hooked.stack) = 2
  /\ hooked.stack[1].op = "update"
  /\ hooked.stack[1].triggered
  /\ Top.steps[Top.at] = "onEnter"
  /\ Top.to = "B"
  /\ hooked.m.history = <<"A", "B">>
  /\ hooked.m.currentState[1].name = "B"

(* C38: a hook that raises (without having called trigger itself) ends the
   call with its fault and leaves the machine as the statements run so far
   made it: raised by the departing state's onExit or by the rule's action,
   the current state and the history are as when the trigger began; raised
   by the target's onEnter, in trigger or start, the current state is the
   target and the history is the one from the beginning with the target
   appended; and a start made again after a start whose onEnter raised
   raises already-started. *)
FaultLeavesDefinedState ==
  /\ (hooked.call.fault.hook \in {"onExit", "action"} /\ ~hooked.call.fault.triggered) =>
       /\ hooked.call.raised = "HookFault"
       /\ hooked.call.fault.m.currentState = hooked.call.fault.began.currentState
       /\ hooked.call.fault.m.history = hooked.call.fault.began.history
  /\ (hooked.call.fault.hook = "onEnter" /\ ~hooked.call.fault.triggered) =>
       /\ hooked.call.raised = "HookFault"
       /\ hooked.call.fault.m.currentState = get(hooked.call.fault.m, hooked.call.fault.to)
       /\ hooked.call.fault.m.history =
            Append(hooked.call.fault.began.history, hooked.call.fault.to)
  /\ (hooked.call.fault.hook # "none" /\ hooked.stack = <<>>) =>
       (hooked.m = hooked.call.fault.m)
  /\ hooked.call.retry =>
       /\ hooked.call.raised \in {"AlreadyStarted", "StartStateNotFound"}
       /\ hooked.m = hooked.call.began

(* C38 as stated, for every hook that raises: also one that has called
   trigger on its machine before it raised, or whose fault is that of a
   trigger it called. *)
EveryFaultLeavesSourceOrTarget ==
  /\ (hooked.call.fault.hook \in {"onExit", "action"}) =>
       /\ hooked.call.fault.m.currentState = hooked.call.fault.began.currentState
       /\ hooked.call.fault.m.history = hooked.call.fault.began.history
  /\ (hooked.call.fault.hook = "onEnter") =>
       /\ hooked.call.fault.m.currentState = get(hooked.call.fault.m, hooked.call.fault.to)
       /\ hooked.call.fault.m.history =
            Append(hooked.call.fault.began.history, hooked.call.fault.to)

(* C38 happens: start('A') was called again after the onEnter of the first
   start('A') had raised, and raised already-started; the machine is in A
   with the history <<A>>. *)
StartRetriedAfterOnEnterFault ==
  /\ hooked.call.retry
  /\ hooked.call.raised = "AlreadyStarted"
  /\ hooked.m.currentState # null
  /\ hooked.m.history = <<"A">>


(***************************************************************************)
(* Properties of the elevator.                                             *)
(***************************************************************************)
(* C33: whenever the car's machine is in MOVING_UP or MOVING_DOWN, the door's
   machine is in DOOR_CLOSED, whatever calls of callElevator, openDoor,
   closeDoor, emergencyStop and update came before: the car does not leave
   IDLE with the door away from DOOR_CLOSED, and the door does not leave
   DOOR_CLOSED while the car moves. *)
MovingWithDoorClosed ==
  mainState(elevator) \in Moving => doorState(elevator) = "DOOR_CLOSED"

(* The car has set off for a floor while its door was still opening. *)
MovedWhileDoorOpening ==
  /\ mainState(elevator) \in Moving
  /\ doorState(elevator) = "DOOR_OPENING"

Pending(floor) == \E i \in 1..Len(elevator.floorRequests) :
                    elevator.floorRequests[i] = floor

(* C34: every accepted call is served in the end: with update called again
   and again and no emergency stop, a floor that is among the pending calls
   is later not among them, the floor the car stands at included. *)
EveryCallServed ==
  \A floor \in 1..MaxFloors : Pending(floor) ~> ~Pending(floor)

(* The call for the floor the idle car stands at is still pending after an
   update has opened the door for it. *)
CallForOwnFloorKept ==
  /\ mainState(elevator) = "IDLE"
  /\ Pending(elevator.currentFloor)
  /\ doorState(elevator) = "DOOR_OPEN"


(***************************************************************************)
(* Properties of the parking garage.                                       *)
(***************************************************************************)
(* C35: after any calls of vehicleArrived, scanTicket, payTicket,
   vehicleCleared, emergencyOpen, emergencyClose and update, the count of
   occupied spaces is at least 0 and at most totalSpaces. *)
OccupiedWithinCapacity ==
  /\ 0 <= garage.occupiedSpaces
  /\ garage.occupiedSpaces <= garage.totalSpaces

(* The gate has opened for a paid ticket and the count is below zero. *)
CountBelowZero ==
  /\ garage.occupiedSpaces < 0
  /\ gateState(garage) = "GATE_OPENING"

============================================================================
